---- MODULE Spec2Model ----
(***************************************************************************)
(* Generation orchestration core of the AI blog backend:                   *)
(* BlogGenerationService (services/generation.py) with its per-provider    *)
(* circuit state, retry loops and BlogPost life cycle; the asynchronous    *)
(* job around it (views.py, tasks.py); and the recording of reactions      *)
(* (services/engagement.py).                                               *)
(*                                                                         *)
(* Worker threads run generate_post calls concurrently.  A call is split   *)
(* at the points where the code touches shared state or suspends: the      *)
(* database writes, the critical sections of _state_lock and each          *)
(* provider request.                                                       *)
(***************************************************************************)
EXTENDS Integers, Sequences, FiniteSets, TLC

\* ------------------------------------------------------------------ bounds
NumWorkers == 2        \* concurrent worker threads
MaxCalls == 4          \* generate_post calls started in one behaviour
MaxSeqCalls == 2       \* the same, when one worker makes every call
MaxTime == 31          \* the clock stops here
TickSeconds == 15      \* granularity of the clock
MaxEnvRetries == 2     \* the CLAUDE_MAX_RETRIES put in the environment, when set
MaxJobs == 1           \* jobs submitted in one behaviour
MaxDeliveries == 2     \* deliveries of one job id by the task runner
NumRequests == 2       \* concurrent record_action calls
MaxRecorded == 3       \* record_action calls started in one behaviour
MaxPosts == 1          \* posts generated while engagements are recorded
MaxLines == 4          \* lines of a text given to the response parser

Workers == 1..NumWorkers
Requests == 1..NumRequests

\* ------------------------------------------------- configuration (settings)
\* An environment variable is <<>> when unset, << value >> when set.
Unset == <<>>
Providers == {"anthropic", "gemini"}

\* The setting with the fallback of generation.py as its default.
CLAUDE_MAX_RETRIES_two(env) == IF env = Unset THEN 2 ELSE env[1]

\* os.getenv('CLAUDE_MAX_RETRIES', '1')
CLAUDE_MAX_RETRIES(env) == IF env = Unset THEN 1 ELSE env[1]

\* getattr(settings, 'CLAUDE_MAX_RETRIES', 2): the settings module always
\* defines the attribute, so the fallback 2 is never taken.
MAX_RETRIES(env) == CLAUDE_MAX_RETRIES(env)

RETRY_DELAY == 1
CIRCUIT_FAILURE_THRESHOLD == 3
CIRCUIT_COOL_OFF_SECONDS == 30

\* ------------------------------------------------------- provider outcomes
\* What one provider request can end in.
\*   kind "ok"   : a response, with its text
\*   kind "http" : the provider's error carrying an HTTP status
\*                 (anthropic APIStatusError, urllib HTTPError)
\*   kind "conn" : network failure or timeout (anthropic: an AnthropicError
\*                 without status_code; gemini: URLError / socket.timeout)
\*   kind "bug"  : any other exception raised inside the try block
\* tag stands for the keywords the handlers look for in the message/body:
\*   "billing" : "credit balance is too low" / "billing" / "resource_exhausted"
\*   "quota"   : the bare word "quota"
\*   "auth"    : reason API_KEY_INVALID / "api key expired"
HttpErrors ==
    { <<401, "auth">>, <<400, "billing">>, <<400, "none">>,
      <<429, "none">>, <<429, "billing">>, <<500, "none">> }

\* Markdown lines: h is the heading level (0: no heading), links the
\* [label](url) pairs on the line.
Line(h, text, links) == [h |-> h, text |-> text, links |-> links]

RawTitled == << Line(1, "Title", <<>>), Line(0, "Short body", <<>>) >>

\* A text that ends with a line break after its sources section.
RawSourced ==
    << Line(0, "Body text.", <<>>),
       Line(2, "Sources", <<>>),
       Line(0, "- ", << <<"Example", "https://www.example.com/a">> >>),
       Line(0, "", <<>>) >>

RawTexts == {RawTitled, RawSourced}

\* The lines the parser's texts are made of: body, empty line, sources
\* headings of level 2 and 3, a heading that goes on after the word, other
\* headings of level 2 and 1, a line with a link.
ParseLines ==
    { Line(0, "Body.", <<>>),
      Line(0, "", <<>>),
      Line(2, "Sources", <<>>),
      Line(3, "references", <<>>),
      Line(2, "Sources of energy", <<>>),
      Line(2, "Next", <<>>),
      Line(1, "Title", <<>>),
      Line(0, "- ", << <<"Example", "https://www.example.com/a">> >>) }

\* Every text of MaxLines lines at most.
ParseTexts == UNION { [1..n -> ParseLines] : n \in 1..MaxLines }

Outcome(kind, status, tag, text) ==
    [kind |-> kind, status |-> status, tag |-> tag, text |-> text]

NoOutcome == Outcome("none", 0, "none", <<>>)

Outcomes ==
    { Outcome("ok", 200, "none", t) : t \in RawTexts }
    \cup { Outcome("http", e[1], e[2], <<>>) : e \in HttpErrors }
    \cup { Outcome("conn", 0, "none", <<>>), Outcome("bug", 0, "none", <<>>) }

\* ------------------------------------------------------------ input values
\* Topics are character sequences, so that strip() and len() are computed.
Topics ==
    { <<>>,
      <<" ", " ", " ", " ", " ", " ">>,
      <<"a", "b", "c", "d">>,
      <<" ", "a", "b", "c", "d", " ">>,
      <<"a", "b", " ", "c", "d">>,
      <<" ", "a", "b", "c", "d", "e">> }

Slugs == {"", "technical", "retired", "ghost"}
Speeds == {"fast", "normal"}

\* Persona rows: the pipeline only reads them.
Persona_objects ==
    { [slug |-> "technical", is_active |-> TRUE],
      [slug |-> "retired", is_active |-> FALSE] }

RECURSIVE lstrip(_)
lstrip(s) == IF s # <<>> /\ Head(s) = " " THEN lstrip(Tail(s)) ELSE s

RECURSIVE rstrip(_)
rstrip(s) ==
    IF s # <<>> /\ s[Len(s)] = " " THEN rstrip(SubSeq(s, 1, Len(s) - 1)) ELSE s

strip(s) == rstrip(lstrip(s))

\* The details dict of a ServiceError, with the keys the service uses.
Details(prov, status_code, last_error, retry_after_seconds) ==
    [provider |-> prov, status_code |-> status_code, last_error |-> last_error,
     retry_after_seconds |-> retry_after_seconds]

NoDetails == Details("", 0, NoOutcome, 0)

NoError == [type |-> "none", code |-> "", message |-> "", details |-> NoDetails]

ServiceError(message, code, details) ==
    [type |-> "ServiceError", code |-> code, message |-> message, details |-> details]

\* Validation measuring the topic without strip().
_validate_generation_input_unstripped(topic, persona_slug) ==
    IF topic = <<>> \/ Len(topic) < 5
    THEN ServiceError("Topic must be at least 5 characters long", "INVALID_TOPIC", NoDetails)
    ELSE IF persona_slug = ""
    THEN ServiceError("Persona slug is required", "INVALID_PERSONA", NoDetails)
    ELSE NoError

\* ServiceError or NoError
_validate_generation_input(topic, persona_slug) ==
    IF topic = <<>> \/ Len(strip(topic)) < 5
    THEN ServiceError("Topic must be at least 5 characters long", "INVALID_TOPIC", NoDetails)
    ELSE IF persona_slug = ""
    THEN ServiceError("Persona slug is required", "INVALID_PERSONA", NoDetails)
    ELSE NoError

\* Persona.objects.get(slug=slug, is_active=True)
_get_persona(slug) ==
    IF \E p \in Persona_objects : p.slug = slug /\ p.is_active
    THEN NoError
    ELSE ServiceError("Active persona not found", "PERSONA_NOT_FOUND", NoDetails)

_resolve_retry_count(speed, env) == IF speed = "fast" THEN 0 ELSE MAX_RETRIES(env)


\* ------------------------------------------------------------- retry loops
\* One pass through the body of `for attempt in range(max_retries + 1)`:
\*   next  "return" | "raise" | "continue" | "break"
\*   error the ServiceError raised (next = "raise")
\*   sleep the delays slept in this pass
Pass(next, error, sleep) == [next |-> next, error |-> error, sleep |-> sleep]

\* RETRY_DELAY * (2 ** attempt), when attempt < max_retries
Backoff(attempt, max_retries) ==
    IF attempt < max_retries THEN << RETRY_DELAY * (2 ^ attempt) >> ELSE <<>>

\* The loop failing fast only below 400 (4xx errors are retried).
_call_claude_with_retry_4xx(o, attempt, max_retries) ==
    CASE o.kind = "ok" -> Pass("return", NoError, <<>>)
      [] o.kind \in {"http", "conn"} ->
            IF o.status # 0 /\ o.status < 400
            THEN Pass("raise",
                      ServiceError("Anthropic request failed", "API_REQUEST_ERROR",
                                   Details("anthropic", o.status, NoOutcome, 0)),
                      <<>>)
            ELSE Pass("continue", NoError, Backoff(attempt, max_retries))
      [] OTHER -> Pass("break", NoError, <<>>)

_call_claude_with_retry(o, attempt, max_retries) ==
    CASE o.kind = "ok" -> Pass("return", NoError, <<>>)
      [] o.kind \in {"http", "conn"} ->
            IF o.status # 0 /\ o.status < 500 /\ o.status # 429
            THEN IF o.tag = "billing"
                 THEN Pass("raise",
                           ServiceError("Anthropic billing issue", "BILLING_ERROR",
                                        Details("anthropic", o.status, NoOutcome, 0)),
                           <<>>)
                 ELSE Pass("raise",
                           ServiceError("Anthropic request failed", "API_REQUEST_ERROR",
                                        Details("anthropic", o.status, NoOutcome, 0)),
                           <<>>)
            ELSE Pass("continue", NoError, Backoff(attempt, max_retries))
      [] OTHER -> Pass("break", NoError, <<>>)

_call_gemini_with_retry(o, attempt, max_retries) ==
    CASE o.kind = "ok" -> Pass("return", NoError, <<>>)
      [] o.kind = "http" ->
            IF o.status = 429 /\ o.tag = "billing"
            THEN Pass("raise",
                      ServiceError("Gemini quota/billing issue", "BILLING_ERROR",
                                   Details("gemini", o.status, NoOutcome, 0)),
                      <<>>)
            ELSE IF o.status < 500 /\ o.status # 429
            THEN IF o.tag = "auth"
                 THEN Pass("raise",
                           ServiceError("Gemini API key is invalid or expired",
                                        "AUTH_ERROR", Details("gemini", o.status, NoOutcome, 0)),
                           <<>>)
                 ELSE IF o.tag \in {"quota", "billing"}
                 THEN Pass("raise",
                           ServiceError("Gemini billing/quota issue", "BILLING_ERROR",
                                        Details("gemini", o.status, NoOutcome, 0)),
                           <<>>)
                 ELSE Pass("raise",
                           ServiceError("Gemini request failed", "API_REQUEST_ERROR",
                                        Details("gemini", o.status, NoOutcome, 0)),
                           <<>>)
            ELSE Pass("continue", NoError, Backoff(attempt, max_retries))
      [] OTHER -> Pass("continue", NoError, Backoff(attempt, max_retries))

\* The error raised after the loop: last_error and the provider name.
ApiError(last_error, prov) ==
    ServiceError("Failed to generate content after retry attempts", "API_ERROR",
                 Details(prov, 0, last_error, 0))

\* ---------------------------------------------------------- circuit state
CircuitState(failures, open_until) == [failures |-> failures, open_until |-> open_until]

\* _check_circuit_state that never raises.
_check_circuit_state_never(state, t, prov) == NoError

\* The ServiceError _check_circuit_state raises at time t, or NoError.
_check_circuit_state(state, t, prov) ==
    IF state.open_until > t
    THEN ServiceError("provider temporarily unavailable", "PROVIDER_UNAVAILABLE",
                      Details(prov, 0, NoOutcome,
                              IF state.open_until - t > 1 THEN state.open_until - t ELSE 1))
    ELSE NoError

\* _record_success resetting the count only.
_record_success_keeps_deadline(state) == CircuitState(0, state.open_until)

\* The dict _record_success writes in place of state.
_record_success(state) == CircuitState(0, 0)

\* _record_failure opening one failure late (> for >=).
_record_failure_late(state, t) ==
    CircuitState(state.failures + 1,
                 IF state.failures + 1 > CIRCUIT_FAILURE_THRESHOLD
                 THEN t + CIRCUIT_COOL_OFF_SECONDS
                 ELSE state.open_until)

\* _record_failure opening at the threshold only (= for >=).
_record_failure_once(state, t) ==
    CircuitState(state.failures + 1,
                 IF state.failures + 1 = CIRCUIT_FAILURE_THRESHOLD
                 THEN t + CIRCUIT_COOL_OFF_SECONDS
                 ELSE state.open_until)

\* The state written by _record_failure from the state it read, at time t.
_record_failure(state, t) ==
    CircuitState(state.failures + 1,
                 IF state.failures + 1 >= CIRCUIT_FAILURE_THRESHOLD
                 THEN t + CIRCUIT_COOL_OFF_SECONDS
                 ELSE state.open_until)


\* A critical section entered without the lock.
lock_acquire_unguarded(lock) == TRUE

\* `with self._state_lock`: the lock is taken only when it is free.
lock_acquire(lock) == lock = 0

\* range(max_retries) for range(max_retries + 1).
in_range_short(attempt, max_retries) == attempt < max_retries

\* `for attempt in range(max_retries + 1)`: is there a pass numbered attempt?
in_range(attempt, max_retries) == attempt < max_retries + 1

\* --------------------------------------------------------- response parser
\* A text is the sequence of its lines, joined by line breaks: a text that
\* ends with a line break has an empty last line.
SourceHeadings ==
    {"Sources", "References", "Citations", "sources", "SOURCES", "references"}

\* Heading texts that begin with one of those words and go on.
SourcePrefixed == {"Sources of energy", "Sources:"}

\* `##\s*(?:Sources|References|Citations)\s*\n`, IGNORECASE: two or more #,
\* the word, the end of the line.
IsSourcesHeading(l) == l.h >= 2 /\ l.text \in SourceHeadings

\* `##\s*(?:Sources|References|Citations)` of the removal pattern: the line
\* may go on after the word.
StartsSourcesHeading(l) == l.h >= 2 /\ l.text \in SourceHeadings \cup SourcePrefixed

Blank(l) == l.h = 0 /\ l.text = "" /\ l.links = <<>>

\* `(?=\n##|\n\n*$)` at the end of line j: a line break follows, and after it
\* come either ## or nothing but line breaks up to the end of the text.
EndsAt(raw, j) ==
    /\ j < Len(raw)
    /\ \/ raw[j + 1].h >= 2
       \/ \A m \in (j + 1)..Len(raw) : Blank(raw[m])

\* `.*?`: the first line at or after from where the section can end, 0 when
\* it can end nowhere.
SectionEnd(raw, from) ==
    LET ends == {j \in from..Len(raw) : EndsAt(raw, j)}
    IN  IF ends = {} THEN 0 ELSE CHOOSE j \in ends : \A k \in ends : j <= k

\* re.search(sources_pattern) matches at line i: the heading, a line break,
\* and a place for the section to end after it.
SearchAt(raw, i) == IsSourcesHeading(raw[i]) /\ SectionEnd(raw, i + 1) # 0

\* The removal pattern matches at line i: it can end on the heading's line.
RemoveAt(raw, i) == StartsSourcesHeading(raw[i]) /\ SectionEnd(raw, i) # 0

\* What a removed section leaves on its heading's line: the # before the
\* last two.
Residue(l) == Line(0, IF l.h = 2 THEN "" ELSE "#", <<>>)

\* re.sub(pattern, '', raw) from line i on: every match is cut out, and the
\* scan goes on after it.
RECURSIVE RemoveSections(_, _)
RemoveSections(raw, i) ==
    IF i > Len(raw) THEN <<>>
    ELSE IF RemoveAt(raw, i)
    THEN << Residue(raw[i]) >> \o RemoveSections(raw, SectionEnd(raw, i) + 1)
    ELSE << raw[i] >> \o RemoveSections(raw, i + 1)

\* str.strip() of a text: the empty lines at both ends go.
RECURSIVE StripLines(_)
StripLines(md) ==
    IF md # <<>> /\ Blank(Head(md)) THEN StripLines(Tail(md))
    ELSE IF md # <<>> /\ Blank(md[Len(md)])
    THEN StripLines(SubSeq(md, 1, Len(md) - 1))
    ELSE md

RECURSIVE LinksOf(_)
LinksOf(lines) ==
    IF lines = <<>> THEN <<>> ELSE Head(lines).links \o LinksOf(Tail(lines))

\* title_match: the text of the first level-1 heading, <<>> when there is none
RECURSIVE ParseTitle(_)
ParseTitle(raw) ==
    IF raw = <<>> THEN <<>>
    ELSE IF Head(raw).h = 1 THEN << Head(raw).text >>
    ELSE ParseTitle(Tail(raw))

\* sources_match: the line of the first match of the search pattern, 0 when
\* the pattern matches nowhere.
SourcesMatch(raw) ==
    LET at == {i \in 1..Len(raw) : SearchAt(raw, i)}
    IN  IF at = {} THEN 0 ELSE CHOOSE i \in at : \A k \in at : i <= k

\* The markdown without the sources sections, when the search matched.
StripSources(raw) ==
    IF SourcesMatch(raw) = 0 THEN raw ELSE StripLines(RemoveSections(raw, 1))

\* _parse_sources(sources_match.group(1)): the [label](url) pairs of the
\* group, which starts at the first line after the heading that is not empty
\* (`\s*\n+` is greedy) and ends where `.*?` can first end.
SectionLinks(raw) ==
    LET i == SourcesMatch(raw)
        rest == {k \in (i + 1)..Len(raw) : ~Blank(raw[k])}
        k0 == IF rest = {} THEN 0 ELSE CHOOSE k \in rest : \A m \in rest : k <= m
        J == IF k0 = 0 THEN 0 ELSE SectionEnd(raw, k0)
    IN  IF i = 0 \/ J = 0 THEN <<>> ELSE LinksOf(SubSeq(raw, i + 1, J))

RECURSIVE Headings(_)
Headings(md) ==
    IF md = <<>> THEN <<>>
    ELSE (IF Head(md).h \in 1..3
          THEN << [level |-> Head(md).h, text |-> Head(md).text] >>
          ELSE <<>>) \o Headings(Tail(md))

\* The dict _analyze_structure returns: it has no 'title' key.
_analyze_structure(md) ==
    [heading_count |-> Len(Headings(md)), headings |-> Headings(md)]

_parse_response(raw) ==
    [markdown |-> StripSources(raw),
     sources |-> SectionLinks(raw),
     title |-> ParseTitle(raw),
     structure |-> _analyze_structure(StripSources(raw))]

\* structure.get('title')
StructureTitle(structure) ==
    IF "title" \in DOMAIN structure THEN << structure.title >> ELSE <<>>

\* ---------------------------------------------------------------- BlogPost
\* Optional values are sequences of length 0 or 1.
\* by_job is history: the GenerationJob whose task created the row, 0 when
\* generate_post was not called by a task.
NoRow ==
    [status |-> "none", title |-> <<>>, slug |-> <<>>, by_job |-> 0,
     topic_input |-> <<>>, raw_prompt |-> <<>>,
     generated_content |-> <<>>, sources |-> <<>>, content_structure |-> <<>>,
     metadata |-> [usage |-> <<>>, error |-> <<>>],
     sentiment_score |-> 0, published_at |-> <<>>]

\* re.sub(r'[-\s]+', '-', value): every run of blanks becomes one hyphen.
RECURSIVE hyphenate(_)
hyphenate(s) ==
    IF s = <<>> THEN <<>>
    ELSE IF Head(s) # " " THEN << Head(s) >> \o hyphenate(Tail(s))
    ELSE IF Len(s) > 1 /\ s[2] = " " THEN hyphenate(Tail(s))
    ELSE << "-" >> \o hyphenate(Tail(s))

\* .strip('-_')
RECURSIVE strip_hyphens(_)
strip_hyphens(s) ==
    IF s = <<>> THEN <<>>
    ELSE IF Head(s) = "-" THEN strip_hyphens(Tail(s))
    ELSE IF s[Len(s)] = "-" THEN strip_hyphens(SubSeq(s, 1, Len(s) - 1))
    ELSE s

\* slugify(topic[:50]) for topics of lower-case letters and blanks.
slugify(topic) == strip_hyphens(hyphenate(topic))

\* The placeholder title f"Draft: {topic[:50]}..."
DraftTitle(topic) == << "Draft: ", topic, "..." >>

\* The while loop of _create_post_record: base_slug, then base_slug-1,
\* base_slug-2, ... until one is not among the slugs the queries see; a slug
\* is the pair of the base and the counter appended (0: none).
unique_slug(base_slug, taken) ==
    LET n == CHOOSE k \in 0..Cardinality(taken) :
                 /\ << base_slug, k >> \notin taken
                 /\ \A j \in 0..(k - 1) : << base_slug, j >> \in taken
    IN  << base_slug, n >>

\* BlogPost.objects.create(..., status=GENERATING)
_create_post_record(topic, slug, raw_prompt, job_id) ==
    [NoRow EXCEPT !.status = "generating",
                  !.title = DraftTitle(topic),
                  !.slug = slug,
                  !.by_job = job_id,
                  !.topic_input = topic,
                  !.raw_prompt = raw_prompt]

\* The update leaving the publish timestamp unset.
_update_post_with_content_unpublished(blog_post, parsed, usage) ==
    [blog_post EXCEPT
        !.generated_content = parsed.markdown,
        !.sources = parsed.sources,
        !.content_structure = << parsed.structure >>,
        !.metadata = [@ EXCEPT !.usage = << usage >>],
        !.status = "completed"]

\* The object after _update_post_with_content set its fields, before save().
_update_post_with_content(blog_post, parsed, usage) ==
    [blog_post EXCEPT
        !.generated_content = parsed.markdown,
        !.sources = parsed.sources,
        !.content_structure = << parsed.structure >>,
        !.title = IF StructureTitle(parsed.structure) # <<>>
                  THEN StructureTitle(parsed.structure)
                  ELSE @,
        !.metadata = [@ EXCEPT !.usage = << usage >>],
        !.status = "completed",
        !.published_at = << "now" >>]


\* ------------------------------------------------------------------- state
VARIABLES
    env_retries,      \* CLAUDE_MAX_RETRIES in the environment, or Unset
    provider,         \* settings.LLM_PROVIDER
    now,              \* time.time()
    _provider_state,  \* BlogGenerationService._provider_state
    _state_lock,      \* BlogGenerationService._state_lock: 0 free, else its holder
    posts,            \* BlogPost rows, by id
    engagements,      \* Engagement rows
    engagement_seq,   \* the ids given to Engagement rows so far
    post_metrics,     \* PostMetric rows, by the id of their post
    rq,               \* the locals of each record_action call under way
    recorded,         \* record_action calls started so far
    jobs,             \* GenerationJob rows, by id
    queue,            \* the task queue: how many deliveries of each job id wait
    task,             \* the locals of each worker's generate_post_job execution
    call,             \* the locals of each worker's generate_post call
    started,          \* generate_post calls started so far
    consec,           \* history: _record_failure writes since the last success
    reachedAt         \* history: when consec reached the threshold

vars ==
    << env_retries, provider, now, _provider_state, _state_lock, posts,
       engagements, engagement_seq, post_metrics, rq, recorded, jobs, queue, task,
       call, started, consec, reachedAt >>

NoResult == [success |-> FALSE, blog_post_id |-> 0, status |-> "", error |-> NoError]

\* pc        where the call is
\* slug      the slug the loop of _create_post_record settled on
\* post_id   id of blog_post, 0 while 'blog_post' is not in locals()
\* blog_post the in-memory BlogPost object
\* state     the dict _record_failure read under the lock
\* exc       the exception on its way to the handlers of generate_post
\* raised, attempts, sleeps, brk, retriable are history: the last outcome the
\* provider gave, the requests issued, the delays slept, the breaker writes
\* made by this call (with what each found), and whether every request so
\* far failed with a rate limit, a server error or a network failure.
Idle ==
    [pc |-> "idle", topic |-> <<>>, persona_slug |-> "", speed |-> "",
     slug |-> <<>>, post_id |-> 0, blog_post |-> NoRow,
     attempt |-> 0, max_retries |-> 0, last_error |-> NoOutcome,
     state |-> CircuitState(0, 0), response |-> NoOutcome, exc |-> NoError,
     result |-> NoResult,
     raised |-> NoOutcome, attempts |-> 0, sleeps |-> <<>>, brk |-> <<>>,
     retriable |-> TRUE]

\* A GenerationJob.  deliveries, runs, crashes and terminals are history:
\* the deliveries of the job id by the task runner, the executions begun,
\* the executions that died, and the terminal statuses the row has held.
\* view is the position of the request that submitted the job ("enqueued":
\* delay() has returned, the task id is not saved yet) and saved_over the
\* status the row had when the view saved the task id.
NoJob ==
    [topic |-> <<>>, persona_slug |-> "", speed |-> "", status |-> "none", progress |-> 0,
     blog_post_id |-> 0, error_message |-> "", task_id |-> 0,
     deliveries |-> 0, runs |-> 0, crashes |-> 0, terminals |-> {},
     view |-> "none", saved_over |-> ""]

\* job is the in-memory GenerationJob object of the execution.

NoTask == [pc |-> "idle", job_id |-> 0, job |-> NoJob]

\* The locals of a record_action call: existing is what the first query
\* returned (<<>>: None), result what the call returned or raised.  before
\* and score_before are history: the action of the pair's row and the score
\* of the post when the call began.
NoRequest ==
    [pc |-> "idle", blog_post_id |-> 0, session_id |-> "", action |-> "",
     existing |-> <<>>, was_toggle |-> FALSE, likes |-> 0,
     before |-> <<>>, score_before |-> 0,
     result |-> [success |-> FALSE, code |-> "", new_score |-> 0, likes_count |-> 0,
                 dislikes_count |-> 0]]

Init ==
    /\ env_retries \in {Unset, << MaxEnvRetries >>}
    /\ provider \in Providers
    /\ now = 1
    /\ _provider_state = [p \in Providers |-> CircuitState(0, 0)]
    /\ _state_lock = 0
    /\ posts = <<>>
    /\ engagements = {}
    /\ engagement_seq = 0
    /\ post_metrics = <<>>
    /\ rq = [r \in Requests |-> NoRequest]
    /\ recorded = 0
    /\ jobs = <<>>
    /\ queue = [j \in 1..MaxJobs |-> 0]
    /\ task = [w \in Workers |-> NoTask]
    /\ call = [w \in Workers |-> Idle]
    /\ started = 0
    /\ consec = [p \in Providers |-> 0]
    /\ reachedAt = [p \in Providers |-> 0]

\* What generate_post leaves alone: the configuration, the engagements and
\* the jobs.
Engage == << engagements, engagement_seq, post_metrics, rq, recorded >>
Config == << env_retries, provider, Engage, jobs, queue, task >>
Breaker == << _provider_state, _state_lock, consec, reachedAt >>

\* The word ranges of settings.py, the environment not setting them.
FAST_MIN_WORDS == 180
FAST_MAX_WORDS == 260
NORMAL_MIN_WORDS == 800
NORMAL_MAX_WORDS == 1200

SourcesDirective == "After the main content, include a ## Sources section listing all references."

\* include_sources=True whatever the speed.
include_sources_always(is_fast) == TRUE

\* include_sources=not is_fast
include_sources(is_fast) == ~is_fast

\* USER_PROMPT_TEMPLATE rendered: the lines of the requirements, then the
\* blocks under {% if is_fast %} and {% if include_sources %}.
USER_PROMPT_TEMPLATE(topic, min_words, max_words, is_fast, with_sources) ==
    [topic |-> topic,
     min_words |-> min_words,
     max_words |-> max_words,
     lines |-> << "Include a compelling, descriptive headline",
                  "Use markdown formatting",
                  "End with a summary paragraph of key takeaways",
                  "If specific sources are referenced, format as [Source Name](url)" >>
               \o (IF is_fast
                   THEN << "Optimize for speed: keep the response concise and focused." >>
                   ELSE <<>>)
               \o (IF with_sources THEN << SourcesDirective >> ELSE <<>>)]

\* PromptService._render_user_prompt
_render_user_prompt(topic, speed) ==
    LET is_fast == speed = "fast"
        min_words == IF is_fast THEN FAST_MIN_WORDS ELSE NORMAL_MIN_WORDS
        max_words == IF is_fast THEN FAST_MAX_WORDS ELSE NORMAL_MAX_WORDS
    IN  USER_PROMPT_TEMPLATE(topic, min_words, max_words, is_fast, include_sources(is_fast))

\* PromptService.build_generation_prompt: the user prompt.
build_generation_prompt(topic, speed) == _render_user_prompt(topic, speed)

\* ----------------------------------------------------------------- actions
Slugs_taken == { posts[i].slug : i \in DOMAIN posts }

\* generate_post, steps 1-3 and the slug loop of step 4: validate, fetch the
\* persona, build the prompts, look for a free slug.  A worker starts a call
\* when it is idle or when the result of its previous call is with the
\* caller ("done").
Generate(w, topic, persona_slug, speed) ==
    /\ call[w].pc \in {"idle", "done"}
    /\ started < MaxCalls
    /\ started' = started + 1
    /\ LET v == _validate_generation_input(topic, persona_slug)
           p == _get_persona(persona_slug)
           begun == [Idle EXCEPT !.topic = topic, !.persona_slug = persona_slug,
                                 !.speed = speed]
       IN  IF v # NoError
           THEN call' = [call EXCEPT ![w] = [begun EXCEPT !.pc = "failed", !.exc = v]]
           ELSE IF p # NoError
           THEN call' = [call EXCEPT ![w] = [begun EXCEPT !.pc = "failed", !.exc = p]]
           ELSE call' = [call EXCEPT ![w] =
                            [begun EXCEPT !.pc = "create",
                                          !.slug = unique_slug(slugify(topic), Slugs_taken)]]
    /\ UNCHANGED << Config, now, Breaker, posts >>

\* generate_post, step 4: BlogPost.objects.create with the slug found.  The
\* unique constraint on slug rejects the insert (IntegrityError) when a row
\* with that slug was created since the loop looked.
CreatePost(w) ==
    /\ call[w].pc = "create"
    /\ LET c == call[w]
           row == _create_post_record(c.topic, c.slug,
                                      build_generation_prompt(c.topic, c.speed),
                                      task[w].job_id)
       IN  IF c.slug \in Slugs_taken
           THEN /\ call' = [call EXCEPT ![w] =
                               [@ EXCEPT !.pc = "failed",
                                         !.exc = [type |-> "Exception", code |-> "",
                                                  message |-> "duplicate key: slug",
                                                  details |-> NoDetails]]]
                /\ posts' = posts
           ELSE /\ posts' = Append(posts, row)
                /\ call' = [call EXCEPT ![w] =
                               [@ EXCEPT !.pc = "check", !.post_id = Len(posts) + 1,
                                         !.blog_post = row]]
    /\ UNCHANGED << Config, now, Breaker, started >>

\* _call_model_with_retry: _check_circuit_state, then the retry count.
CheckCircuit(w) ==
    /\ call[w].pc = "check"
    /\ lock_acquire(_state_lock)
    /\ LET e == _check_circuit_state(_provider_state[provider], now, provider)
       IN  IF e # NoError
           THEN call' = [call EXCEPT ![w] = [@ EXCEPT !.pc = "failed", !.exc = e]]
           ELSE call' = [call EXCEPT ![w] =
                            [@ EXCEPT !.pc = "attempt", !.attempt = 0,
                                      !.max_retries =
                                          _resolve_retry_count(call[w].speed, env_retries)]]
    /\ UNCHANGED << Config, now, Breaker, posts, started >>

\* Rate limit, server error, network failure or timeout.
Transient(o) ==
    \/ o.kind = "conn"
    \/ o.kind = "http" /\ (o.status >= 500 \/ (o.status = 429 /\ o.tag = "none"))

\* What a breaker write found: an open breaker, an elevated count or neither.
Found(state, t) ==
    IF state.open_until > t THEN "open"
    ELSE IF state.failures > 0 THEN "elevated" ELSE "clean"

\* One pass of the retry loop: the request and the handling of its outcome.
Attempt(w, o) ==
    /\ call[w].pc = "attempt"
    /\ LET c == call[w]
           pass == IF provider = "anthropic"
                   THEN _call_claude_with_retry(o, c.attempt, c.max_retries)
                   ELSE _call_gemini_with_retry(o, c.attempt, c.max_retries)
           seen == [c EXCEPT !.raised = o, !.attempts = @ + 1,
                             !.retriable = @ /\ Transient(o),
                             !.last_error = IF o.kind = "ok" THEN @ ELSE o,
                             !.sleeps = @ \o pass.sleep]
       IN  call' = [call EXCEPT ![w] =
              CASE pass.next = "return" -> [seen EXCEPT !.pc = "record_success",
                                                        !.response = o]
                [] pass.next = "raise" -> [seen EXCEPT !.pc = "failed", !.exc = pass.error]
                [] pass.next = "continue" ->
                      IF in_range(c.attempt + 1, c.max_retries)
                      THEN [seen EXCEPT !.attempt = @ + 1]
                      ELSE [seen EXCEPT !.pc = "record_failure"]
                [] OTHER -> [seen EXCEPT !.pc = "record_failure"]]
    /\ UNCHANGED << Config, now, Breaker, posts, started >>

\* _record_failure, first half: take the lock and read the state.
RecordFailureRead(w) ==
    /\ call[w].pc = "record_failure"
    /\ lock_acquire(_state_lock)
    /\ _state_lock' = w
    /\ call' = [call EXCEPT ![w] = [@ EXCEPT !.pc = "record_failure_write",
                                             !.state = _provider_state[provider]]]
    /\ UNCHANGED << Config, now, _provider_state, consec, reachedAt, posts, started >>

\* _record_failure, second half: write the state, release the lock; the
\* retry loop then raises API_ERROR.
RecordFailureWrite(w) ==
    /\ call[w].pc = "record_failure_write"
    /\ _provider_state' =
          [_provider_state EXCEPT ![provider] = _record_failure(call[w].state, now)]
    /\ _state_lock' = 0
    /\ consec' = [consec EXCEPT ![provider] = @ + 1]
    /\ reachedAt' = [reachedAt EXCEPT ![provider] =
                        IF consec[provider] + 1 = CIRCUIT_FAILURE_THRESHOLD THEN now ELSE @]
    /\ call' = [call EXCEPT ![w] =
                   [@ EXCEPT !.pc = "failed",
                             !.exc = ApiError(call[w].last_error, provider),
                             !.brk = Append(@, [op |-> "failure",
                                                found |-> Found(_provider_state[provider], now)])]]
    /\ UNCHANGED << Config, now, posts, started >>

\* _record_success, after the retry loop returned a result.
RecordSuccess(w) ==
    /\ call[w].pc = "record_success"
    /\ lock_acquire(_state_lock)
    /\ _provider_state' = [_provider_state EXCEPT ![provider] = _record_success(@)]
    /\ consec' = [consec EXCEPT ![provider] = 0]
    /\ reachedAt' = [reachedAt EXCEPT ![provider] = 0]
    /\ call' = [call EXCEPT ![w] =
                   [@ EXCEPT !.pc = "persist",
                             !.brk = Append(@, [op |-> "success",
                                                found |-> Found(_provider_state[provider], now)])]]
    /\ UNCHANGED << Config, now, _state_lock, posts, started >>


\* The number of Engagement rows of a post with the given action.
engagement_count(post_id, action) ==
    Cardinality({e \in engagements : e.blog_post_id = post_id /\ e.action = action})

\* A row lock that is never waited for.
post_lock_free_unguarded(blog_post_id) == TRUE

\* The row of the post is locked by the transaction of _update_post_metrics
\* from its select_for_update() to its commit: is it free?  An UPDATE of the
\* row, and an INSERT of a row referring to it, wait for the lock.
post_lock_free(blog_post_id) ==
    \A r \in Requests : ~(rq[r].pc = "counted" /\ rq[r].blog_post_id = blog_post_id)

\* The usage dict the retry loop returns with the content.
Usage(c) == [retry_count |-> c.attempt, provider |-> provider]

\* generate_post, steps 6-7: parse the response, set the fields of the object
\* and save() it (every field is written).
Persist(w) ==
    /\ call[w].pc = "persist"
    /\ post_lock_free(call[w].post_id)
    /\ LET c == call[w]
           obj == _update_post_with_content(c.blog_post, _parse_response(c.response.text),
                                            Usage(c))
       IN  /\ posts' = [posts EXCEPT ![c.post_id] = obj]
           /\ call' = [call EXCEPT ![w] = [@ EXCEPT !.pc = "score", !.blog_post = obj]]
    /\ UNCHANGED << Config, now, Breaker, started >>

\* The same step when save() raises a database error: the fields of the
\* object are set, the row is not written.
PersistFails(w) ==
    /\ call[w].pc = "persist"
    /\ LET c == call[w]
           obj == _update_post_with_content(c.blog_post, _parse_response(c.response.text),
                                            Usage(c))
       IN  call' = [call EXCEPT ![w] =
                       [@ EXCEPT !.pc = "failed", !.blog_post = obj,
                                 !.exc = [type |-> "Exception", code |-> "",
                                          message |-> "database error on save",
                                          details |-> NoDetails]]]
    /\ UNCHANGED << Config, now, Breaker, posts, started >>

\* BlogPost.update_sentiment_score(): recount, save(update_fields=['sentiment_score']);
\* generate_post then returns its result.
ScoreInit(w) ==
    /\ call[w].pc = "score"
    /\ post_lock_free(call[w].post_id)
    /\ LET c == call[w]
           score == engagement_count(c.post_id, "like") - engagement_count(c.post_id, "dislike")
       IN  /\ posts' = [posts EXCEPT ![c.post_id] = [@ EXCEPT !.sentiment_score = score]]
           /\ call' = [call EXCEPT ![w] =
                          [@ EXCEPT !.pc = "done",
                                    !.blog_post = [@ EXCEPT !.sentiment_score = score],
                                    !.result = [success |-> TRUE, blog_post_id |-> c.post_id,
                                                status |-> "completed", error |-> NoError]]]
    /\ UNCHANGED << Config, now, Breaker, started >>

\* update_sentiment_score() raising a database error.
ScoreInitFails(w) ==
    /\ call[w].pc = "score"
    /\ call' = [call EXCEPT ![w] =
                   [@ EXCEPT !.pc = "failed",
                             !.exc = [type |-> "Exception", code |-> "",
                                      message |-> "database error on score",
                                      details |-> NoDetails]]]
    /\ UNCHANGED << Config, now, Breaker, posts, started >>

\* BaseService.handle_exception: ServiceError(str(exc), details=context)
handle_exception(exc) == ServiceError(exc.message, "SERVICE_ERROR", NoDetails)

\* The object the except clauses of generate_post save.
MarkFailed(blog_post, exc) ==
    IF exc.type = "ServiceError"
    THEN [blog_post EXCEPT !.status = "failed"]
    ELSE [blog_post EXCEPT !.status = "failed",
                           !.metadata = [@ EXCEPT !.error = << exc.message >>]]

\* The except clauses of generate_post: mark the row failed when blog_post
\* is in locals(), then raise.
Failed(w) ==
    /\ call[w].pc = "failed"
    /\ call[w].post_id # 0 => post_lock_free(call[w].post_id)
    /\ LET c == call[w]
           obj == MarkFailed(c.blog_post, c.exc)
           err == IF c.exc.type = "ServiceError" THEN c.exc ELSE handle_exception(c.exc)
       IN  /\ posts' = IF c.post_id # 0 THEN [posts EXCEPT ![c.post_id] = obj] ELSE posts
           /\ call' = [call EXCEPT ![w] =
                          [@ EXCEPT !.pc = "done",
                                    !.blog_post = IF c.post_id # 0 THEN obj ELSE @,
                                    !.result = [NoResult EXCEPT !.error = err]]]
    /\ UNCHANGED << Config, now, Breaker, started >>

\* The except clauses of generate_post when their blog_post.save() raises a
\* database error: the row is not written and the error of the save leaves
\* generate_post.
FailedSaveFails(w) ==
    /\ call[w].pc = "failed"
    /\ call[w].post_id # 0
    /\ call' = [call EXCEPT ![w] =
                   [@ EXCEPT !.pc = "done",
                             !.blog_post = MarkFailed(call[w].blog_post, call[w].exc),
                             !.result = [NoResult EXCEPT !.error =
                                            [type |-> "Exception", code |-> "",
                                             message |-> "database error on save",
                                             details |-> NoDetails]]]]
    /\ UNCHANGED << Config, now, Breaker, posts, started >>

\* Time passes.
Tick ==
    /\ now + TickSeconds <= MaxTime
    /\ now' = now + TickSeconds
    /\ UNCHANGED << Config, Breaker, posts, call, started >>

\* Concurrent calls under the default configuration, with valid input and
\* normal speed; the provider answers, rejects the credentials or fails with a
\* server error.
\* --------------------------------------------------------------------- jobs
\* GenerationJob.objects.create(..., status=QUEUED, progress=0)
GenerationJob_create(topic, persona_slug, speed) ==
    [NoJob EXCEPT !.topic = topic, !.persona_slug = persona_slug, !.speed = speed,
                  !.status = "queued", !.progress = 0]

\* BlogGenerationView.post without sync, lines 122-132: the job row is
\* created and generate_post_job.delay(job.id) puts one delivery on the
\* queue.
Submit(topic, persona_slug, speed) ==
    /\ Len(jobs) < MaxJobs
    /\ jobs' = Append(jobs, [GenerationJob_create(topic, persona_slug, speed)
                                EXCEPT !.deliveries = 1, !.view = "enqueued"])
    /\ queue' = [queue EXCEPT ![Len(jobs) + 1] = @ + 1]
    /\ UNCHANGED << env_retries, provider, Engage, task, now, Breaker, posts, call,
                    started >>

\* job.save() with no update_fields: every column is written from the
\* view's object.
save_task_id_whole(row, obj) ==
    [row EXCEPT !.task_id = obj.task_id, !.status = obj.status,
                !.progress = obj.progress, !.blog_post_id = obj.blog_post_id,
                !.error_message = obj.error_message]

\* job.save(update_fields=['task_id', 'updated_at']) of the view's object.
save_task_id(row, obj) == [row EXCEPT !.task_id = obj.task_id]

\* BlogGenerationView.post, lines 133-134: the view sets task.id on the
\* object it created and saves it; a worker may have taken the delivery in
\* the meantime.
SubmitSave(j) ==
    /\ j \in DOMAIN jobs
    /\ jobs[j].view = "enqueued"
    /\ LET row == jobs[j]
           obj == [GenerationJob_create(row.topic, row.persona_slug, row.speed)
                      EXCEPT !.task_id = j]
       IN  jobs' = [jobs EXCEPT ![j] =
                       [save_task_id(row, obj) EXCEPT !.view = "saved",
                                                      !.saved_over = row.status]]
    /\ UNCHANGED << env_retries, provider, Engage, queue, task, now, Breaker, posts,
                    call, started >>

\* The same request when delay() raises (the broker is unreachable) and
\* QUEUE_SYNC_FALLBACK is off: the view answers 503 QUEUE_UNAVAILABLE; the
\* row it created stays.
SubmitQueueDown(topic, persona_slug, speed) ==
    /\ Len(jobs) < MaxJobs
    /\ jobs' = Append(jobs, GenerationJob_create(topic, persona_slug, speed))
    /\ UNCHANGED << env_retries, provider, Engage, queue, task, now, Breaker, posts,
                    call, started >>

\* The task runner delivers a job id once more (at-least-once delivery).
Redeliver(j) ==
    /\ j \in DOMAIN jobs
    /\ jobs[j].deliveries \in 1..(MaxDeliveries - 1)
    /\ jobs' = [jobs EXCEPT ![j] = [@ EXCEPT !.deliveries = @ + 1]]
    /\ queue' = [queue EXCEPT ![j] = @ + 1]
    /\ UNCHANGED << env_retries, provider, Engage, task, now, Breaker, posts, call,
                    started >>

\* The fields generate_post_job sets before it calls generate_post.
job_running(job, task_id) ==
    [job EXCEPT !.status = "running", !.progress = 10, !.task_id = task_id,
                !.error_message = ""]

\* The fields it sets when generate_post returned result.
job_completed(job, result) ==
    [job EXCEPT !.progress = 100, !.status = "completed",
                !.blog_post_id = IF result.blog_post_id # 0 THEN result.blog_post_id ELSE @]

\* The handler leaving the error field as it is.
job_failed_silent(job, exc) ==
    [job EXCEPT !.status = "failed", !.progress = 100]

\* The fields it sets when generate_post raised exc.
job_failed(job, exc) ==
    [job EXCEPT !.status = "failed", !.progress = 100, !.error_message = exc.message]

\* generate_post_job, lines 9-18: a worker takes a delivery, loads the job
\* and saves status, progress, task_id and error_message.
TaskStart(w, j) ==
    /\ task[w].pc # "running"
    /\ j \in DOMAIN jobs
    /\ queue[j] > 0
    /\ queue' = [queue EXCEPT ![j] = @ - 1]
    /\ LET job == job_running(jobs[j], j)
       IN  /\ jobs' = [jobs EXCEPT ![j] = [job EXCEPT !.runs = @ + 1]]
           /\ task' = [task EXCEPT ![w] = [pc |-> "running", job_id |-> j, job |-> job]]
    /\ call' = [call EXCEPT ![w] = Idle]
    /\ UNCHANGED << env_retries, provider, Engage, now, Breaker, posts, started >>

\* generate_post_job, lines 21-27: the call of generate_post.
GenerateJob(w) ==
    /\ task[w].pc = "running"
    /\ call[w].pc = "idle"
    /\ Generate(w, task[w].job.topic, task[w].job.persona_slug,
                IF task[w].job.speed = "" THEN "fast" ELSE task[w].job.speed)

\* generate_post_job, lines 29-34: save(update_fields=['progress', 'status',
\* 'blog_post', 'updated_at']).
TaskComplete(w) ==
    /\ task[w].pc = "running"
    /\ call[w].pc = "done"
    /\ call[w].result.success
    /\ LET j == task[w].job_id
           job == job_completed(task[w].job, call[w].result)
       IN  /\ jobs' = [jobs EXCEPT ![j] =
                          [@ EXCEPT !.progress = job.progress, !.status = job.status,
                                    !.blog_post_id = job.blog_post_id,
                                    !.terminals = @ \cup {"completed"}]]
           /\ task' = [task EXCEPT ![w] = [@ EXCEPT !.pc = "returned", !.job = job]]
    /\ UNCHANGED << env_retries, provider, Engage, queue, now, Breaker, posts, call,
                    started >>

\* generate_post_job, lines 35-40: save(update_fields=['status', 'progress',
\* 'error_message', 'updated_at']) and raise.
TaskFail(w) ==
    /\ task[w].pc = "running"
    /\ call[w].pc = "done"
    /\ ~call[w].result.success
    /\ LET j == task[w].job_id
           job == job_failed(task[w].job, call[w].result.error)
       IN  /\ jobs' = [jobs EXCEPT ![j] =
                          [@ EXCEPT !.progress = job.progress, !.status = job.status,
                                    !.error_message = job.error_message,
                                    !.terminals = @ \cup {"failed"}]]
           /\ task' = [task EXCEPT ![w] = [@ EXCEPT !.pc = "raised", !.job = job]]
    /\ UNCHANGED << env_retries, provider, Engage, queue, now, Breaker, posts, call,
                    started >>

\* The execution dies while the provider request is under way (the worker
\* is killed): its locals are gone, the rows stay as they are.
Crash(w) ==
    /\ task[w].pc = "running"
    /\ call[w].pc = "attempt"
    /\ jobs' = [jobs EXCEPT ![task[w].job_id] = [@ EXCEPT !.crashes = @ + 1]]
    /\ task' = [task EXCEPT ![w] = NoTask]
    /\ call' = [call EXCEPT ![w] = Idle]
    /\ UNCHANGED << env_retries, provider, Engage, queue, now, Breaker, posts,
                    started >>


\* --------------------------------------------------------------- engagement
ActionType_choices == {"like", "dislike"}

\* The Engagement rows of a (post, session) pair.
Engagement_filter(blog_post_id, session_id) ==
    { e \in engagements : e.blog_post_id = blog_post_id /\ e.session_id = session_id }

\* Without the constraint unique_engagement_per_session.
unique_engagement_unchecked(blog_post_id, session_id) == TRUE

\* UniqueConstraint(fields=['blog_post', 'session_id']): may a row for the
\* pair be inserted?
unique_engagement_per_session(blog_post_id, session_id) ==
    Engagement_filter(blog_post_id, session_id) = {}

\* ServiceError code or ""
_validate_engagement(blog_post_id, action) ==
    IF blog_post_id \notin DOMAIN posts THEN "POST_NOT_FOUND"
    ELSE IF action \notin ActionType_choices THEN "INVALID_ACTION"
    ELSE ""

\* The action of the row of a (post, session) pair, <<>> when it has none.
Reaction(blog_post_id, session_id) ==
    LET found == Engagement_filter(blog_post_id, session_id)
    IN  IF found = {} THEN <<>> ELSE << (CHOOSE e \in found : TRUE).action >>

\* record_action, line 58: validation.
EngageStart(r, blog_post_id, session_id, action) ==
    /\ rq[r].pc \in {"idle", "done"}
    /\ recorded < MaxRecorded
    /\ recorded' = recorded + 1
    /\ LET code == _validate_engagement(blog_post_id, action)
           begun == [NoRequest EXCEPT !.blog_post_id = blog_post_id,
                                      !.session_id = session_id, !.action = action,
                                      !.before = Reaction(blog_post_id, session_id),
                                      !.score_before =
                                          IF blog_post_id \in DOMAIN posts
                                          THEN posts[blog_post_id].sentiment_score ELSE 0]
       IN  rq' = [rq EXCEPT ![r] =
                     IF code # ""
                     THEN [begun EXCEPT !.pc = "done", !.result = [@ EXCEPT !.code = code]]
                     ELSE [begun EXCEPT !.pc = "read"]]
    /\ UNCHANGED << env_retries, provider, engagements, engagement_seq, post_metrics,
                    jobs, queue, task, now, Breaker, posts, call, started >>

\* A call that never toggles off.
is_toggle_never(existing, action) == FALSE

\* `if existing and existing.action == action`
is_toggle(existing, action) == existing # <<>> /\ existing[1].action = action

\* record_action, lines 61-66: Engagement.objects.filter(...).first() and
\* the choice between toggling off and upserting.
EngageRead(r) ==
    /\ rq[r].pc = "read"
    /\ LET found == Engagement_filter(rq[r].blog_post_id, rq[r].session_id)
       IN  \/ /\ found = {}
              /\ rq' = [rq EXCEPT ![r] = [@ EXCEPT !.pc = "upsert", !.existing = <<>>]]
           \/ \E e \in found :
                 rq' = [rq EXCEPT ![r] =
                           [@ EXCEPT !.pc = IF is_toggle(<< e >>, rq[r].action)
                                            THEN "delete" ELSE "upsert",
                                     !.existing = << e >>]]
    /\ UNCHANGED << env_retries, provider, engagements, engagement_seq, post_metrics,
                    recorded, jobs, queue, task, now, Breaker, posts, call, started >>

\* record_action, lines 68-69: existing.delete() removes the row with the
\* primary key read, if it is still there.
EngageDelete(r) ==
    /\ rq[r].pc = "delete"
    /\ engagements' = { e \in engagements : e.id # rq[r].existing[1].id }
    /\ rq' = [rq EXCEPT ![r] = [@ EXCEPT !.pc = "metrics", !.was_toggle = TRUE]]
    /\ UNCHANGED << env_retries, provider, engagement_seq, post_metrics, recorded,
                    jobs, queue, task, now, Breaker, posts, call, started >>

\* record_action, lines 72-79, update_or_create: the locked get of the row
\* of the pair and, when there is one, the update of its action.
EngageUpsert(r) ==
    /\ rq[r].pc = "upsert"
    /\ LET found == Engagement_filter(rq[r].blog_post_id, rq[r].session_id)
       IN  IF found = {}
           THEN /\ rq' = [rq EXCEPT ![r] = [@ EXCEPT !.pc = "create"]]
                /\ engagements' = engagements
           ELSE /\ rq' = [rq EXCEPT ![r] = [@ EXCEPT !.pc = "metrics"]]
                /\ engagements' = { IF e \in found THEN [e EXCEPT !.action = rq[r].action]
                                    ELSE e : e \in engagements }
    /\ UNCHANGED << env_retries, provider, engagement_seq, post_metrics, recorded,
                    jobs, queue, task, now, Breaker, posts, call, started >>

\* update_or_create when the get found no row: the insert; if the unique
\* constraint rejects it, the row that is there is fetched and updated.
EngageCreate(r) ==
    /\ rq[r].pc = "create"
    /\ unique_engagement_per_session(rq[r].blog_post_id, rq[r].session_id)
          => post_lock_free(rq[r].blog_post_id)
    /\ LET found == Engagement_filter(rq[r].blog_post_id, rq[r].session_id)
       IN  IF unique_engagement_per_session(rq[r].blog_post_id, rq[r].session_id)
           THEN /\ engagements' = engagements \cup
                       { [id |-> engagement_seq + 1, blog_post_id |-> rq[r].blog_post_id,
                          session_id |-> rq[r].session_id, action |-> rq[r].action] }
                /\ engagement_seq' = engagement_seq + 1
           ELSE /\ engagements' = { IF e \in found THEN [e EXCEPT !.action = rq[r].action]
                                    ELSE e : e \in engagements }
                /\ engagement_seq' = engagement_seq
    /\ rq' = [rq EXCEPT ![r] = [@ EXCEPT !.pc = "metrics"]]
    /\ UNCHANGED << env_retries, provider, post_metrics, recorded, jobs, queue, task, now,
                    Breaker, posts, call, started >>

\* sentiment_score = likes - dislikes
sentiment_score(likes, dislikes) == likes - dislikes

\* _update_post_metrics, lines 122-129: the transaction begins, the row of
\* the post is locked (select_for_update) and the likes are counted.
EngageCount(r) ==
    /\ rq[r].pc = "metrics"
    /\ post_lock_free(rq[r].blog_post_id)
    /\ rq' = [rq EXCEPT ![r] =
                 [@ EXCEPT !.pc = "counted",
                           !.likes = engagement_count(rq[r].blog_post_id, "like")]]
    /\ UNCHANGED << env_retries, provider, engagements, engagement_seq, post_metrics,
                    recorded, jobs, queue, task, now, Breaker, posts, call, started >>

\* _update_post_metrics, lines 131-158: the dislikes are counted, the score
\* and the PostMetric are saved and the transaction commits; record_action
\* returns.
EngageMetrics(r) ==
    /\ rq[r].pc = "counted"
    /\ LET id == rq[r].blog_post_id
           likes == rq[r].likes
           dislikes == engagement_count(id, "dislike")
       IN  /\ posts' = [posts EXCEPT ![id] =
                          [@ EXCEPT !.sentiment_score = sentiment_score(likes, dislikes)]]
           /\ post_metrics' = [i \in DOMAIN post_metrics \cup {id} |->
                                  IF i = id
                                  THEN [likes_count |-> likes, dislikes_count |-> dislikes]
                                  ELSE post_metrics[i]]
           /\ rq' = [rq EXCEPT ![r] =
                        [@ EXCEPT !.pc = "done",
                                  !.result = [success |-> TRUE, code |-> "",
                                              new_score |-> sentiment_score(likes, dislikes),
                                              likes_count |-> likes,
                                              dislikes_count |-> dislikes]]]
    /\ UNCHANGED << env_retries, provider, engagements, engagement_seq, recorded,
                    jobs, queue, task, now, Breaker, call, started >>

\* ---------------------------------------------------------- specifications
SpecTopics == { <<" ", "a", "b", "c", "d", "e">> }
SpecOutcomes ==
    { Outcome("ok", 200, "none", RawTitled), Outcome("http", 401, "auth", <<>>),
      Outcome("http", 500, "none", <<>>) }

Next ==
    \/ \E w \in Workers, topic \in SpecTopics :
          Generate(w, topic, "technical", "normal")
    \/ \E w \in Workers : CreatePost(w)
    \/ \E w \in Workers : CheckCircuit(w)
    \/ \E w \in Workers, o \in SpecOutcomes : Attempt(w, o)
    \/ \E w \in Workers : RecordFailureRead(w)
    \/ \E w \in Workers : RecordFailureWrite(w)
    \/ \E w \in Workers : RecordSuccess(w)
    \/ \E w \in Workers : Persist(w)
    \/ \E w \in Workers : ScoreInit(w)
    \/ \E w \in Workers : Failed(w)
    \/ Tick

\* The default configuration: CLAUDE_MAX_RETRIES is not in the environment.
InitDefault == Init /\ env_retries = Unset

Spec == InitDefault /\ [][Next]_vars

\* generate_post called by the one worker, MaxSeqCalls times at most.
GenerateSeq(topic, persona_slug, speed) ==
    /\ started < MaxSeqCalls
    /\ Generate(1, topic, persona_slug, speed)

\* One worker, calls one after another, with every input, every provider
\* outcome and database errors.
NextCall ==
    \/ \E topic \in Topics, slug \in Slugs, speed \in Speeds :
          GenerateSeq(topic, slug, speed)
    \/ CreatePost(1)
    \/ CheckCircuit(1)
    \/ \E o \in Outcomes : Attempt(1, o)
    \/ RecordFailureRead(1)
    \/ RecordFailureWrite(1)
    \/ RecordSuccess(1)
    \/ Persist(1)
    \/ PersistFails(1)
    \/ ScoreInit(1)
    \/ ScoreInitFails(1)
    \/ Failed(1)
    \/ Tick

SpecCall == Init /\ [][NextCall]_vars

JobOutcomes == { Outcome("ok", 200, "none", RawTitled), Outcome("http", 401, "auth", <<>>) }

\* The steps of worker w's execution of the task.
TaskStep(w) ==
    \/ \E j \in 1..MaxJobs : TaskStart(w, j)
    \/ GenerateJob(w)
    \/ CreatePost(w)
    \/ CheckCircuit(w)
    \/ \E o \in JobOutcomes : Attempt(w, o)
    \/ RecordSuccess(w)
    \/ Persist(w)
    \/ ScoreInit(w)
    \/ Failed(w)
    \/ TaskComplete(w)
    \/ TaskFail(w)

\* Jobs submitted through the view and executed by the workers; the task
\* runner may deliver a job id again and an execution may die.
NextJob ==
    \/ \E topic \in SpecTopics, speed \in Speeds : Submit(topic, "technical", speed)
    \/ \E topic \in SpecTopics, speed \in Speeds : SubmitQueueDown(topic, "technical", speed)
    \/ \E j \in 1..MaxJobs : SubmitSave(j)
    \/ \E j \in 1..MaxJobs : Redeliver(j)
    \/ \E w \in Workers : TaskStep(w)
    \/ \E w \in Workers : Crash(w)

Sessions == {"s1", "s2"}
EngageActions == {"like", "dislike", "love"}
PostIds == 1..(MaxPosts + 1)

\* generate_post called MaxPosts times at most by worker 1.
GenerateFew(topic, persona_slug, speed) ==
    /\ started < MaxPosts
    /\ Generate(1, topic, persona_slug, speed)

\* Readers record their reactions while the pipeline generates the posts;
\* PostIds has one id more than there will be rows.
NextEngage ==
    \/ \E topic \in SpecTopics : GenerateFew(topic, "technical", "fast")
    \/ CreatePost(1)
    \/ CheckCircuit(1)
    \/ \E o \in JobOutcomes : Attempt(1, o)
    \/ RecordSuccess(1)
    \/ Persist(1)
    \/ ScoreInit(1)
    \/ Failed(1)
    \/ \E r \in Requests, id \in PostIds, session_id \in Sessions, action \in EngageActions :
          EngageStart(r, id, session_id, action)
    \/ \E r \in Requests : EngageRead(r)
    \/ \E r \in Requests : EngageDelete(r)
    \/ \E r \in Requests : EngageUpsert(r)
    \/ \E r \in Requests : EngageCreate(r)
    \/ \E r \in Requests : EngageCount(r)
    \/ \E r \in Requests : EngageMetrics(r)

\* The default configuration with the Gemini provider.
InitGemini == InitDefault /\ provider = "gemini"

SpecEngage == InitGemini /\ [][NextEngage]_vars

\* A reaction to a post whose generation has ended.
EngageAfter(r, blog_post_id, session_id, action) ==
    /\ call[1].pc = "done"
    /\ EngageStart(r, blog_post_id, session_id, action)

\* One caller recording reactions one after another, once the post is
\* generated.
NextEngageSeq ==
    \/ \E topic \in SpecTopics : GenerateFew(topic, "technical", "fast")
    \/ CreatePost(1)
    \/ CheckCircuit(1)
    \/ \E o \in JobOutcomes : Attempt(1, o)
    \/ RecordSuccess(1)
    \/ Persist(1)
    \/ ScoreInit(1)
    \/ Failed(1)
    \/ \E id \in PostIds, session_id \in Sessions, action \in EngageActions :
          EngageAfter(1, id, session_id, action)
    \/ EngageRead(1)
    \/ EngageDelete(1)
    \/ EngageUpsert(1)
    \/ EngageCreate(1)
    \/ EngageCount(1)
    \/ EngageMetrics(1)

SpecEngageSeq == InitGemini /\ [][NextEngageSeq]_vars

\* Concurrent callers recording reactions to a post whose generation has
\* ended.
NextReact ==
    \/ \E topic \in SpecTopics : GenerateFew(topic, "technical", "fast")
    \/ CreatePost(1)
    \/ CheckCircuit(1)
    \/ \E o \in JobOutcomes : Attempt(1, o)
    \/ RecordSuccess(1)
    \/ Persist(1)
    \/ ScoreInit(1)
    \/ Failed(1)
    \/ \E r \in Requests, id \in PostIds, session_id \in Sessions, action \in EngageActions :
          EngageAfter(r, id, session_id, action)
    \/ \E r \in Requests : EngageRead(r)
    \/ \E r \in Requests : EngageDelete(r)
    \/ \E r \in Requests : EngageUpsert(r)
    \/ \E r \in Requests : EngageCreate(r)
    \/ \E r \in Requests : EngageCount(r)
    \/ \E r \in Requests : EngageMetrics(r)

SpecReact == InitGemini /\ [][NextReact]_vars

\* One generation whose provider answers with any of the parser's texts.
ParseOutcomes == { Outcome("ok", 200, "none", t) : t \in ParseTexts }

NextParse ==
    \/ \E topic \in SpecTopics : GenerateFew(topic, "technical", "normal")
    \/ CreatePost(1)
    \/ CheckCircuit(1)
    \/ \E o \in ParseOutcomes : Attempt(1, o)
    \/ RecordSuccess(1)
    \/ Persist(1)
    \/ ScoreInit(1)

SpecParse == InitGemini /\ [][NextParse]_vars

\* generate_post is given any string as its speed.
PromptSpeeds == Speeds \cup {"thorough", "FAST", ""}

\* One worker building the prompt of every topic at every speed.
NextPrompt ==
    \/ \E topic \in Topics, speed \in PromptSpeeds :
          GenerateSeq(topic, "technical", speed)
    \/ CreatePost(1)
    \/ CheckCircuit(1)
    \/ \E o \in SpecOutcomes : Attempt(1, o)
    \/ RecordFailureRead(1)
    \/ RecordFailureWrite(1)
    \/ RecordSuccess(1)
    \/ Persist(1)
    \/ ScoreInit(1)
    \/ Failed(1)

SpecPrompt == InitDefault /\ [][NextPrompt]_vars

TermOutcomes ==
    SpecOutcomes \cup { Outcome("conn", 0, "none", <<>>), Outcome("bug", 0, "none", <<>>) }

\* The steps of worker w's generate_post call, database errors included.
CallStep(w) ==
    \/ CreatePost(w)
    \/ CheckCircuit(w)
    \/ \E o \in TermOutcomes : Attempt(w, o)
    \/ RecordFailureRead(w)
    \/ RecordFailureWrite(w)
    \/ RecordSuccess(w)
    \/ Persist(w)
    \/ PersistFails(w)
    \/ ScoreInit(w)
    \/ ScoreInitFails(w)
    \/ Failed(w)
    \/ FailedSaveFails(w)

TermTopics == SpecTopics \cup { <<>> }

\* One worker making its calls one after another; a call that has begun
\* goes on: the thread is not stopped.
NextTerm ==
    \/ \E topic \in TermTopics, slug \in {"technical", "ghost"}, speed \in Speeds :
          GenerateSeq(topic, slug, speed)
    \/ CallStep(1)

SpecTerm == InitDefault /\ [][NextTerm]_vars /\ WF_vars(CallStep(1))

SpecJob == InitDefault /\ [][NextJob]_vars

\* The same without executions that die.
NextJobLive ==
    \/ \E topic \in SpecTopics, speed \in Speeds : Submit(topic, "technical", speed)
    \/ \E topic \in SpecTopics, speed \in Speeds : SubmitQueueDown(topic, "technical", speed)
    \/ \E j \in 1..MaxJobs : SubmitSave(j)
    \/ \E j \in 1..MaxJobs : Redeliver(j)
    \/ \E w \in Workers : TaskStep(w)

\* The workers keep taking the deliveries that wait and every execution
\* goes on to its end.
SpecJobFair ==
    InitDefault /\ [][NextJobLive]_vars /\ \A w \in Workers : WF_vars(TaskStep(w))


\* ------------------------------------------------------------------ claims
CheckOpenFails(p) == _check_circuit_state(_provider_state[p], now, p) # NoError

Error(c) == IF c.pc = "done" THEN c.result.error ELSE c.exc

\* C1: once CIRCUIT_FAILURE_THRESHOLD failures were recorded for a provider
\* since its last success, whichever calls recorded them, the breaker check
\* fails for that provider until CIRCUIT_COOL_OFF_SECONDS have passed since
\* the failure that reached the threshold; with fewer failures it passes.
C1_OpensAtThreshold ==
    \A p \in Providers :
        /\ (consec[p] >= CIRCUIT_FAILURE_THRESHOLD
              /\ now < reachedAt[p] + CIRCUIT_COOL_OFF_SECONDS) => CheckOpenFails(p)
        /\ consec[p] < CIRCUIT_FAILURE_THRESHOLD => ~CheckOpenFails(p)

\* The threshold was reached and a later call was short-circuited.
C1_Witness ==
    \E w \in Workers :
        /\ call[w].pc = "done"
        /\ call[w].result.error.code = "PROVIDER_UNAVAILABLE"
        /\ consec[provider] = CIRCUIT_FAILURE_THRESHOLD
        /\ now < reachedAt[provider] + CIRCUIT_COOL_OFF_SECONDS

\* C2: one _record_success, whatever the state it finds, leaves the provider
\* with failures = 0 and open_until cleared, and the breaker check passes in
\* the state it leaves.
C2_SuccessResets ==
    [][\A w \in Workers :
          (call[w].pc = "record_success" /\ call'[w].pc # "record_success")
          => /\ _provider_state'[provider] = CircuitState(0, 0)
             /\ _check_circuit_state(_provider_state'[provider], now', provider) = NoError]_vars

\* A success recorded while the breaker was open closed it.
C2_Witness ==
    \E w \in Workers :
        /\ call[w].pc = "persist"
        /\ call[w].brk # <<>>
        /\ call[w].brk[1] = [op |-> "success", found |-> "open"]
        /\ _provider_state[provider] = CircuitState(0, 0)
        /\ ~CheckOpenFails(provider)

IsOpen == _provider_state[provider].open_until > now

\* C3 as claimed: no provider request, first attempt or retry, is issued
\* while the provider's breaker is open.
C3_NoRequestWhileOpen ==
    [][\A w \in Workers : call'[w].attempts > call[w].attempts => ~IsOpen]_vars

\* C3 amended: a call that reaches the breaker check while the breaker is open
\* is short-circuited with PROVIDER_UNAVAILABLE and issues no provider request.
C3_ShortCircuitAtCheck ==
    [][\A w \in Workers :
          /\ (call[w].pc = "check" /\ IsOpen /\ call'[w] # call[w])
             => /\ call'[w].pc = "failed"
                /\ call'[w].exc.code = "PROVIDER_UNAVAILABLE"
                /\ call'[w].attempts = 0
          /\ (call[w].pc = "failed" /\ call[w].exc.code = "PROVIDER_UNAVAILABLE"
                /\ call'[w].pc = "done")
             => call'[w].attempts = 0]_vars

\* A call reached the check while the breaker was open and was
\* short-circuited before any request.
C3_Witness ==
    \E w \in Workers :
        /\ call[w].pc = "failed"
        /\ call[w].exc.code = "PROVIDER_UNAVAILABLE"
        /\ call[w].attempts = 0
        /\ call[w].raised = NoOutcome
        /\ IsOpen

\* C4: the state map is read and written only by the holder of _state_lock:
\* a worker is between the read and the write of _record_failure exactly
\* while it holds the lock, the count equals the number of _record_failure
\* calls completed since the last success (no update is lost), and a
\* deadline is set only with a count at or above the threshold.
C4_LockProtectsState ==
    /\ \A w \in Workers : call[w].pc = "record_failure_write" <=> _state_lock = w
    /\ _provider_state[provider].failures = consec[provider]
    /\ _provider_state[provider].open_until # 0
          => _provider_state[provider].failures >= CIRCUIT_FAILURE_THRESHOLD

\* Two calls were recording a failure at the same time and both updates
\* are counted.
C4_Witness ==
    \E w, v \in Workers :
        /\ w # v
        /\ call[w].pc = "failed" /\ call[w].exc.code = "API_ERROR"
        /\ call[v].pc = "failed" /\ call[v].exc.code = "API_ERROR"
        /\ _provider_state[provider].failures = 2
        /\ consec[provider] = 2


FatalCodes == {"AUTH_ERROR", "BILLING_ERROR", "API_REQUEST_ERROR"}

\* The delays base_delay * 2^k for k = 0..n-1.
Delays(n) == [k \in 1..n |-> RETRY_DELAY * (2 ^ (k - 1))]

\* C5: when every attempt fails with a retriable error, the loop given
\* max_retries = n makes n + 1 attempts, sleeps RETRY_DELAY * 2^k after failed
\* attempt k for k < n and not after the last, and raises API_ERROR with the
\* last underlying error and the provider name.
C5_ExhaustedRetries ==
    \A w \in Workers :
        LET c == call[w]
        IN  (c.retriable /\ c.attempts > 0
               /\ c.pc \in {"record_failure", "record_failure_write", "failed", "done"})
            => /\ c.attempts = c.max_retries + 1
               /\ c.sleeps = Delays(c.max_retries)
               /\ c.pc \in {"failed", "done"}
                     => /\ Error(c).code = "API_ERROR"
                        /\ Error(c).details.last_error = c.raised
                        /\ Error(c).details.provider = provider

\* Three attempts, the delays 1 and 2, then API_ERROR.
C5_Witness ==
    \E w \in Workers :
        /\ call[w].pc = "done"
        /\ call[w].retriable
        /\ call[w].max_retries = 2
        /\ call[w].attempts = 3
        /\ call[w].sleeps = <<1, 2>>
        /\ call[w].result.error.code = "API_ERROR"

\* Authentication, billing or another 4xx failure, or exhausted quota
\* reported by Gemini with status 429.
Fatal4xx(o) ==
    /\ o.kind = "http"
    /\ \/ o.status < 500 /\ o.status # 429
       \/ provider = "gemini" /\ o.status = 429 /\ o.tag = "billing"

\* C6: an attempt that fails with an authentication, billing, quota or other
\* 4xx error ends the loop at once with that error: no attempt and no sleep
\* follows it, whatever max_retries is.
C6_FatalFailsFast ==
    \A w \in Workers :
        LET c == call[w]
        IN  Fatal4xx(c.raised)
            => /\ c.pc \in {"failed", "done"}
               /\ Error(c).code \in FatalCodes
               /\ c.attempts = c.attempt + 1
               /\ Len(c.sleeps) = c.attempt
               /\ c.attempt = 0 => (c.attempts = 1 /\ c.sleeps = <<>>)

\* A fatal error on the first of three possible attempts.
C6_Witness ==
    \E w \in Workers :
        /\ call[w].pc = "done"
        /\ Fatal4xx(call[w].raised)
        /\ call[w].max_retries = 2
        /\ call[w].attempts = 1
        /\ call[w].sleeps = <<>>
        /\ call[w].result.error.code = "AUTH_ERROR"

Recorded(c, op) == c.brk # <<>> /\ c.brk[1].op = op

\* Every one of the max_retries + 1 attempts was made and none gave a result
\* or a fatal error.
RetriesExhausted(c) ==
    /\ c.response = NoOutcome
    /\ c.attempts = c.max_retries + 1
    /\ Error(c).code \notin FatalCodes

\* C7: a call writes the circuit state at most once; it records
\* success exactly when the retry loop returned a result and failure exactly
\* when the retries are exhausted; a fatal or short-circuited call writes
\* nothing.
C7_OneBreakerWrite ==
    \A w \in Workers :
        LET c == call[w]
        IN  /\ Len(c.brk) <= 1
            /\ c.pc \in {"persist", "score", "failed", "done"}
                  => (Recorded(c, "success") <=> c.response # NoOutcome)
            /\ c.pc \in {"failed", "done"}
                  => /\ Recorded(c, "failure") <=> RetriesExhausted(c)
                     /\ Error(c).code \in FatalCodes \cup {"PROVIDER_UNAVAILABLE"}
                           => c.brk = <<>>

\* An exception that is not the provider's error ended the anthropic loop.
BrokeOut(c) == provider = "anthropic" /\ c.raised.kind = "bug"

\* What the code keeps of C7: the same, with failure recorded exactly when
\* the retries are exhausted or an unexpected exception ended the anthropic
\* loop early.
C7_OneBreakerWriteOrBreak ==
    \A w \in Workers :
        LET c == call[w]
        IN  /\ Len(c.brk) <= 1
            /\ c.pc \in {"persist", "score", "failed", "done"}
                  => (Recorded(c, "success") <=> c.response # NoOutcome)
            /\ c.pc \in {"failed", "done"}
                  => /\ Recorded(c, "failure") <=> (RetriesExhausted(c) \/ BrokeOut(c))
                     /\ Error(c).code \in FatalCodes \cup {"PROVIDER_UNAVAILABLE"}
                           => c.brk = <<>>

\* One failure recorded by a call that broke out after the first of its
\* three attempts.
C7_Witness ==
    \E w \in Workers :
        /\ call[w].pc = "done"
        /\ BrokeOut(call[w])
        /\ call[w].attempts = 1
        /\ call[w].max_retries = 2
        /\ Len(call[w].brk) = 1
        /\ Recorded(call[w], "failure")

InLoop(c) == c.pc = "attempt" \/ c.attempts > 0

\* C8 as claimed: the retry count is 0 for speed fast and otherwise the
\* configured number, 2 when nothing is configured.
C8_RetriesDefaultTwo ==
    \A w \in Workers :
        InLoop(call[w])
        => call[w].max_retries =
              IF call[w].speed = "fast" THEN 0
              ELSE IF env_retries = Unset THEN 2 ELSE env_retries[1]

\* C8 amended: the retry count is 0 for speed fast and otherwise the
\* configured number, 1 when nothing is configured; the call never makes
\* more than that number + 1 requests.
C8_RetriesDefaultOne ==
    \A w \in Workers :
        InLoop(call[w])
        => /\ call[w].max_retries =
                 IF call[w].speed = "fast" THEN 0
                 ELSE IF env_retries = Unset THEN 1 ELSE env_retries[1]
           /\ call[w].attempts <= call[w].max_retries + 1

\* Under the default configuration a normal-speed call gave up after two
\* requests.
C8_Witness ==
    \E w \in Workers :
        /\ env_retries = Unset
        /\ call[w].speed = "normal"
        /\ call[w].pc = "done"
        /\ call[w].attempts = 2
        /\ call[w].result.error.code = "API_ERROR"

\* The length of the topic between its first and last non-blank character.
TrimmedLen(topic) ==
    LET ns == {i \in DOMAIN topic : topic[i] # " "}
    IN  IF ns = {} THEN 0
        ELSE (CHOOSE i \in ns : \A j \in ns : j <= i)
             - (CHOOSE i \in ns : \A j \in ns : i <= j) + 1

InvalidInput(c) ==
    \/ TrimmedLen(c.topic) < 5
    \/ c.persona_slug = ""
    \/ ~ \E p \in Persona_objects : p.slug = c.persona_slug /\ p.is_active

\* C9: every step of a call whose topic is shorter than 5 characters once
\* trimmed, or whose persona slug is empty, unknown or inactive, leaves the
\* BlogPost rows and the circuit state as they were; the call holds no row,
\* makes no provider request and ends with the validation or lookup error.
C9_InvalidInputTouchesNothing ==
    [][\A w \in Workers :
          (call'[w] # call[w] /\ InvalidInput(call'[w]))
          => /\ posts' = posts
             /\ _provider_state' = _provider_state
             /\ call'[w].post_id = 0
             /\ call'[w].attempts = 0
             /\ call'[w].pc \in {"failed", "done"}
             /\ Error(call'[w]).code
                   \in {"INVALID_TOPIC", "INVALID_PERSONA", "PERSONA_NOT_FOUND"}]_vars

\* A call for an inactive persona ended after an earlier call had created
\* a row: the rows are those of before.
C9_Witness ==
    \E w \in Workers :
        /\ call[w].pc = "done"
        /\ call[w].persona_slug = "retired"
        /\ TrimmedLen(call[w].topic) >= 5
        /\ call[w].result.error.code = "PERSONA_NOT_FOUND"
        /\ call[w].post_id = 0
        /\ Len(posts) = 1

Frozen(row) ==
    << row.generated_content, row.sources, row.content_structure, row.metadata >>

\* C10: a row's status only moves generating -> completed or generating ->
\* failed, and a completed or failed row keeps its body, sources, structure
\* and metadata.
C10_StatusForwardAndFrozen ==
    [][\A i \in DOMAIN posts :
          /\ posts'[i].status # posts[i].status
                => /\ posts[i].status = "generating"
                   /\ posts'[i].status \in {"completed", "failed"}
          /\ posts[i].status \in {"completed", "failed"}
                => Frozen(posts'[i]) = Frozen(posts[i])]_vars


\* A call that created its row and ended with an error.
FailedAfterCreate(c) == c.pc = "done" /\ ~c.result.success /\ c.post_id # 0

\* C11: after any error raised once the row exists, the row has status
\* failed, its metadata holds the error text, and an error is raised to the
\* caller.
C11_FailureStoredInRow ==
    \A w \in Workers :
        FailedAfterCreate(call[w])
        => /\ posts[call[w].post_id].status = "failed"
           /\ posts[call[w].post_id].metadata.error # <<>>
           /\ call[w].result.error # NoError

\* What the code keeps of C11: the row is failed and an error is raised; the
\* text is stored exactly for the errors that are not ServiceErrors.
C11_FailureMarksRow ==
    \A w \in Workers :
        FailedAfterCreate(call[w])
        => /\ posts[call[w].post_id].status = "failed"
           /\ call[w].result.error # NoError
           /\ posts[call[w].post_id].metadata.error # <<>>
                 <=> call[w].exc.type # "ServiceError"

\* A fatal authentication error left the row failed with no error text.
C11_Witness ==
    \E w \in Workers :
        /\ FailedAfterCreate(call[w])
        /\ call[w].result.error.code = "AUTH_ERROR"
        /\ posts[call[w].post_id].status = "failed"
        /\ posts[call[w].post_id].metadata.error = <<>>

ShortCircuited(c) ==
    c.pc \in {"failed", "done"} /\ Error(c).code = "PROVIDER_UNAVAILABLE"

\* C12: a call short-circuited by the open breaker has its row, created in
\* generating with the rendered prompt; it fails with PROVIDER_UNAVAILABLE
\* and retry_after_seconds >= 1, makes no provider request, and its row
\* becomes failed with the reason recorded.
C12_OpenBreakerFailsRow ==
    \A w \in Workers :
        LET c == call[w]
        IN  ShortCircuited(c)
            => /\ c.post_id # 0
               /\ posts[c.post_id].raw_prompt = build_generation_prompt(c.topic, c.speed)
               /\ Error(c).details.retry_after_seconds >= 1
               /\ c.attempts = 0
               /\ c.pc = "failed" => posts[c.post_id].status = "generating"
               /\ c.pc = "done"
                     => /\ posts[c.post_id].status = "failed"
                        /\ posts[c.post_id].metadata.error # <<>>

\* What the code keeps of C12: everything but the recorded reason.
C12_OpenBreakerFailsRowSilently ==
    \A w \in Workers :
        LET c == call[w]
        IN  ShortCircuited(c)
            => /\ c.post_id # 0
               /\ posts[c.post_id].raw_prompt = build_generation_prompt(c.topic, c.speed)
               /\ Error(c).details.retry_after_seconds >= 1
               /\ c.attempts = 0
               /\ c.pc = "failed" => posts[c.post_id].status = "generating"
               /\ c.pc = "done"
                     => /\ posts[c.post_id].status = "failed"
                        /\ posts[c.post_id].metadata.error = <<>>

\* A short-circuited call ended: its row is failed and holds no reason.
C12_Witness ==
    \E w \in Workers :
        /\ call[w].pc = "done"
        /\ ShortCircuited(call[w])
        /\ posts[call[w].post_id].status = "failed"
        /\ posts[call[w].post_id].metadata.error = <<>>

\* C13: after a successful provider call whose result is persisted without
\* a database error the row is completed and holds the
\* parsed body, sources and structure, the usage metadata and a publish
\* timestamp, with sentiment_score 0 when it has no engagement rows; the
\* result reports completed and the row's id.
C13_SuccessCompletesRow ==
    \A w \in Workers :
        LET c == call[w]
            parsed == _parse_response(c.response.text)
        IN  (c.pc = "done" /\ c.response # NoOutcome /\ c.exc = NoError)
            => /\ c.result.success
               /\ c.result.status = "completed"
               /\ c.result.blog_post_id = c.post_id
               /\ c.post_id \in DOMAIN posts
               /\ posts[c.post_id].status = "completed"
               /\ posts[c.post_id].generated_content = parsed.markdown
               /\ posts[c.post_id].sources = parsed.sources
               /\ posts[c.post_id].content_structure = << parsed.structure >>
               /\ posts[c.post_id].metadata.usage = << Usage(c) >>
               /\ posts[c.post_id].metadata.error = <<>>
               /\ posts[c.post_id].published_at # <<>>
               /\ posts[c.post_id].topic_input = c.topic
               /\ engagement_count(c.post_id, "like") + engagement_count(c.post_id, "dislike") = 0
                     => posts[c.post_id].sentiment_score = 0

\* A response with a sources section was persisted after one retry.
C13_Witness ==
    \E w \in Workers :
        /\ call[w].pc = "done"
        /\ call[w].result.success
        /\ call[w].response.text = RawSourced
        /\ call[w].attempt = 1
        /\ posts[call[w].post_id].status = "completed"
        /\ posts[call[w].post_id].sources # <<>>

\* C14: after a successful generation the row's title is the text of the
\* response's first level-1 heading when there is one, and the placeholder
\* given at creation otherwise.
C14_TitleFromHeading ==
    \A w \in Workers :
        LET c == call[w]
            title == ParseTitle(c.response.text)
        IN  (c.pc = "done" /\ c.result.success)
            => posts[c.post_id].title =
                  IF title # <<>> THEN title ELSE DraftTitle(c.topic)

\* What the code does: the placeholder is always kept.
C14_TitleKept ==
    \A w \in Workers :
        (call[w].pc = "done" /\ call[w].result.success)
        => posts[call[w].post_id].title = DraftTitle(call[w].topic)

\* A response with a level-1 heading was persisted and the row still has
\* its placeholder title.
C14_Witness ==
    \E w \in Workers :
        /\ call[w].pc = "done"
        /\ call[w].result.success
        /\ ParseTitle(call[w].response.text) # <<>>
        /\ posts[call[w].post_id].title = DraftTitle(call[w].topic)

\* A valid call that is past the creation of its row.
PastCreate(c) == c.pc \notin {"idle", "create"} /\ c.exc.code \notin
                     {"INVALID_TOPIC", "INVALID_PERSONA", "PERSONA_NOT_FOUND"}

\* C19: concurrent requests with the same topic and persona each create a
\* row of their own under every interleaving: every call past the creation
\* step holds a row, and two workers never hold the same row.
C19_IndependentRecords ==
    /\ \A w \in Workers : PastCreate(call[w]) => call[w].post_id # 0
    /\ \A w1, w2 \in Workers :
          (w1 # w2 /\ call[w1].post_id # 0) => call[w1].post_id # call[w2].post_id

\* What the code keeps of C19: the rows held are distinct, and a call without
\* a row failed on the unique constraint of slug.
C19_DistinctOrRejected ==
    /\ \A w \in Workers :
          (PastCreate(call[w]) /\ call[w].post_id = 0)
          => call[w].exc.message = "duplicate key: slug"
    /\ \A w1, w2 \in Workers :
          (w1 # w2 /\ call[w1].post_id # 0) => call[w1].post_id # call[w2].post_id

\* Two concurrent calls for the same topic and persona: one holds the row
\* with the slug both had found free, the other failed on the insert.
C19_Witness ==
    \E w1, w2 \in Workers :
        /\ w1 # w2
        /\ call[w1].topic = call[w2].topic
        /\ call[w1].persona_slug = call[w2].persona_slug
        /\ call[w1].slug = call[w2].slug
        /\ call[w1].post_id # 0
        /\ call[w1].pc = "check"
        /\ call[w2].pc = "done"
        /\ call[w2].post_id = 0
        /\ call[w2].result.error.code = "SERVICE_ERROR"
        /\ Len(posts) = 1

\* The place of a job status along queued -> running -> {completed, failed}.
Rank(status) ==
    CASE status = "queued" -> 0
      [] status = "running" -> 1
      [] OTHER -> 2

Terminal == {"completed", "failed"}

\* C15: whatever executions of the task run for a job, re-deliveries of
\* its id after it ended included, the job's status never moves backward
\* along queued -> running -> {completed, failed} and its progress never
\* decreases.
C15_JobMonotonic ==
    [][\A j \in DOMAIN jobs :
          /\ Rank(jobs'[j].status) >= Rank(jobs[j].status)
          /\ jobs[j].status \in Terminal => jobs'[j].status = jobs[j].status
          /\ jobs'[j].progress >= jobs[j].progress]_vars

\* What the code keeps of C15: status and progress only move forward within
\* the first execution of a job.
C15_FirstRunMonotonic ==
    [][\A j \in DOMAIN jobs :
          jobs'[j].runs <= 1
          => /\ Rank(jobs'[j].status) >= Rank(jobs[j].status)
             /\ jobs[j].status \in Terminal => jobs'[j].status = jobs[j].status
             /\ jobs'[j].progress >= jobs[j].progress]_vars

\* A job that had been completed is running again, at progress 10.
C15_Witness ==
    \E j \in DOMAIN jobs :
        /\ "completed" \in jobs[j].terminals
        /\ jobs[j].status = "running"
        /\ jobs[j].progress = 10

\* C16: every job the submit endpoint created, enqueued or not, eventually
\* is completed or failed, and a job never holds both terminal statuses in
\* its life.
C16_JobTerminatesOnce ==
    /\ \A j \in 1..MaxJobs :
          (j \in DOMAIN jobs) ~> (j \in DOMAIN jobs /\ jobs[j].status \in Terminal)
    /\ [](\A j \in DOMAIN jobs : Cardinality(jobs[j].terminals) <= 1)

\* What the code keeps of C16: a job that was enqueued ends its first
\* execution completed or failed.
C16_EnqueuedJobTerminates ==
    \A j \in 1..MaxJobs :
        (j \in DOMAIN jobs /\ jobs[j].deliveries > 0)
        ~> (j \in DOMAIN jobs /\ jobs[j].terminals # {})

\* A job whose enqueueing failed: it is queued, no delivery of it waits or
\* ever will, and no worker executes it.
C16_Witness ==
    \E j \in DOMAIN jobs :
        /\ jobs[j].status = "queued"
        /\ jobs[j].deliveries = 0
        /\ queue[j] = 0
        /\ \A w \in Workers : task[w].job_id # j

\* The one execution of job j is worker w's.
OnlyRun(w, j) == task[w].job_id = j /\ jobs[j].runs = 1

\* C17: one execution of the task takes the job from queued to running at
\* progress 10 and then mirrors generate_post: returned, the job is completed
\* at progress 100, linked to the returned row, its error field empty;
\* raised, the job is failed at progress 100 with the error text in its
\* error field and the exception goes to the task runner.
C17_RunMirrorsOutcome ==
    /\ \A j \in DOMAIN jobs :
          jobs[j].runs = 0 => (jobs[j].status = "queued" /\ jobs[j].progress = 0)
    /\ \A w \in Workers, j \in DOMAIN jobs :
          OnlyRun(w, j)
          => /\ task[w].pc = "running"
                   => /\ jobs[j].status = "running"
                      /\ jobs[j].progress = 10
                      /\ jobs[j].error_message = ""
             /\ task[w].pc = "returned"
                   => /\ call[w].result.success
                      /\ jobs[j].status = "completed"
                      /\ jobs[j].progress = 100
                      /\ jobs[j].blog_post_id = call[w].result.blog_post_id
                      /\ jobs[j].blog_post_id = call[w].post_id
                      /\ jobs[j].error_message = ""
             /\ task[w].pc = "raised"
                   => /\ ~call[w].result.success
                      /\ jobs[j].status = "failed"
                      /\ jobs[j].progress = 100
                      /\ jobs[j].error_message = call[w].result.error.message
                      /\ jobs[j].error_message # ""
                      /\ jobs[j].blog_post_id = 0

\* The one execution of a job raised: the job is failed with the text of
\* the authentication error.
C17_Witness ==
    \E w \in Workers, j \in DOMAIN jobs :
        /\ OnlyRun(w, j)
        /\ task[w].pc = "raised"
        /\ call[w].result.error.code \in FatalCodes
        /\ jobs[j].status = "failed"
        /\ jobs[j].error_message # ""

RowsOf(j) == { i \in DOMAIN posts : posts[i].by_job = j }

\* C18: when an execution of a job died leaving its row in generating and a
\* later execution of the job completes, the job has that one row, and it
\* is completed.
C18_RerunOverwrites ==
    \A w \in Workers, j \in DOMAIN jobs :
        (task[w].job_id = j /\ task[w].pc = "returned" /\ jobs[j].crashes > 0)
        => /\ Cardinality(RowsOf(j)) = 1
           /\ \A i \in RowsOf(j) : posts[i].status = "completed"

\* What the code does: every execution that reaches the creation step
\* inserts a row of its own, and nothing writes the row of a dead execution.
C18_DeadRowStays ==
    [][\A i \in DOMAIN posts :
          (posts[i].status = "generating" /\ \A w \in Workers : call[w].post_id # i)
          => posts'[i] = posts[i]]_vars

\* A job completed by its second execution after the first died: it has two
\* rows, the first still in generating.
C18_Witness ==
    \E w \in Workers, j \in DOMAIN jobs :
        /\ task[w].job_id = j
        /\ task[w].pc = "returned"
        /\ jobs[j].crashes = 1
        /\ jobs[j].status = "completed"
        /\ Cardinality(RowsOf(j)) = 2
        /\ \E i \in RowsOf(j) : posts[i].status = "generating"

\* C20: in every reachable state at most one Engagement row exists for a
\* (post, session) pair, and the action of every row is like or dislike.
C20_OneRowPerSession ==
    /\ \A e1, e2 \in engagements :
          (e1.blog_post_id = e2.blog_post_id /\ e1.session_id = e2.session_id) => e1 = e2
    /\ \A e \in engagements : e.action \in {"like", "dislike"}

\* Two calls of one session found no row for the post, the first inserted
\* its row and the insert of the second was rejected: the one row holds the
\* action of the second.
C20_Witness ==
    \E r1, r2 \in Requests :
        /\ r1 # r2
        /\ rq[r1].blog_post_id = rq[r2].blog_post_id
        /\ rq[r1].session_id = rq[r2].session_id
        /\ rq[r1].existing = <<>> /\ rq[r2].existing = <<>>
        /\ rq[r1].action = "like" /\ rq[r2].action = "dislike"
        /\ rq[r1].pc = "done" /\ rq[r1].result.success
        /\ rq[r2].pc = "done" /\ rq[r2].result.success
        /\ engagement_seq = 1
        /\ \E e \in engagements : e.action = "dislike" /\ e.session_id = rq[r1].session_id

\* What a reaction adds to the score of its post.
Contribution(reaction) ==
    IF reaction = << "like" >> THEN 1 ELSE IF reaction = << "dislike" >> THEN -1 ELSE 0

\* C21: for calls on one (post, session) pair made one after another, a call
\* with the action the pair's row holds deletes the row and the score loses
\* what the row had added; a call with another action, or on a pair without
\* a row, leaves exactly one row of the pair, holding the new action, and
\* the score stands at the new action's +1 or -1 above what it is without a
\* row of the pair.
C21_ToggleInSequence ==
    \A r \in Requests :
        LET q == rq[r]
            rows == Engagement_filter(q.blog_post_id, q.session_id)
        IN  (q.pc = "done" /\ q.result.success)
            => /\ q.before = << q.action >> => (rows = {} /\ q.was_toggle)
               /\ q.before # << q.action >>
                     => /\ Cardinality(rows) = 1
                        /\ \A e \in rows : e.action = q.action
                        /\ ~q.was_toggle
               /\ posts[q.blog_post_id].sentiment_score =
                     q.score_before - Contribution(q.before)
                     + Contribution(Reaction(q.blog_post_id, q.session_id))
               /\ q.result.new_score = posts[q.blog_post_id].sentiment_score

\* like, then like again by the same session: the row is gone and the score
\* is back at 0.
C21_Witness ==
    /\ recorded = 2
    /\ rq[1].pc = "done" /\ rq[1].result.success
    /\ rq[1].action = "like" /\ rq[1].before = << "like" >>
    /\ rq[1].score_before = 1
    /\ engagements = {}
    /\ posts[rq[1].blog_post_id].sentiment_score = 0

\* No record_action call is under way.
NoneRecording == \A r \in Requests : rq[r].pc \in {"idle", "done"}

\* C22: once the concurrent record_action calls on a post have all ended,
\* the post's stored score is the number of its like rows minus the number
\* of its dislike rows, and the stored like and dislike counts are those
\* numbers.
C22_MetricsMatchRows ==
    NoneRecording
    => \A id \in DOMAIN posts :
          LET likes == engagement_count(id, "like")
              dislikes == engagement_count(id, "dislike")
          IN  /\ posts[id].sentiment_score = likes - dislikes
              /\ likes + dislikes > 0 => id \in DOMAIN post_metrics
              /\ id \in DOMAIN post_metrics
                    => post_metrics[id] = [likes_count |-> likes, dislikes_count |-> dislikes]

\* Two sessions reacted to the post at the same time, the one with a like
\* the other with a dislike, after a first like of the one: the calls
\* overlapped and the score is that of the rows.
C22_Witness ==
    /\ NoneRecording
    /\ recorded = 3
    /\ rq[1].pc = "done" /\ rq[2].pc = "done"
    /\ rq[1].session_id # rq[2].session_id
    /\ rq[1].blog_post_id = rq[2].blog_post_id
    /\ rq[1].result.success /\ rq[2].result.success
    /\ rq[1].result.new_score # rq[2].result.new_score
    /\ Cardinality(engagements) = 2
    /\ posts[rq[1].blog_post_id].sentiment_score = 0


\* A rate limit (429), a server error (5xx) or a network failure/timeout.
RetriableClass(o) ==
    \/ o.kind = "conn"
    \/ o.kind = "http" /\ (o.status = 429 \/ o.status >= 500)

\* An authentication, billing/quota or other 4xx failure.
FatalClass(o) == o.kind = "http" /\ o.status < 500 /\ o.status # 429

\* C23: with either provider, after a 429, a 5xx or a network failure the
\* loop goes on to another attempt while attempts remain, and after an
\* authentication, billing/quota or other 4xx failure the call ends with a
\* fatal error and no further attempt.
C23_ClassifiedByStatus ==
    \A w \in Workers :
        LET c == call[w]
        IN  /\ (RetriableClass(c.raised) /\ c.attempts <= c.max_retries)
                  => c.pc = "attempt"
            /\ FatalClass(c.raised)
                  => (c.pc \in {"failed", "done"} /\ Error(c).code \in FatalCodes)

\* What the code keeps of C23: the same, except that a 429 of Gemini whose
\* body reports an exhausted resource, quota or billing is fatal.
C23_ClassifiedExceptGemini429 ==
    \A w \in Workers :
        LET c == call[w]
        IN  /\ (RetriableClass(c.raised) /\ ~Fatal4xx(c.raised) /\ c.attempts <= c.max_retries)
                  => c.pc = "attempt"
            /\ Fatal4xx(c.raised)
                  => (c.pc \in {"failed", "done"} /\ Error(c).code \in FatalCodes)

\* Gemini answered the first of three possible attempts with a 429 and the
\* call ended with BILLING_ERROR.
C23_Witness ==
    \E w \in Workers :
        /\ provider = "gemini"
        /\ call[w].raised.status = 429
        /\ call[w].max_retries = 2
        /\ call[w].attempts = 1
        /\ call[w].pc = "done"
        /\ call[w].result.error.code = "BILLING_ERROR"


\* ---- C24
\* Line m of raw lies in a sources section: a heading of level 2 or deeper
\* reading Sources, References or Citations, with the lines under it up to
\* the next heading.
InSourcesSection(raw, m) ==
    \E i \in 1..m : IsSourcesHeading(raw[i]) /\ \A k \in (i + 1)..m : raw[k].h = 0

\* The lines of raw from line m on that are not empty and lie inside (in) or
\* outside (~in) the sources sections.
RECURSIVE LinesWhere(_, _, _)
LinesWhere(raw, m, in) ==
    IF m > Len(raw) THEN <<>>
    ELSE (IF InSourcesSection(raw, m) = in /\ ~Blank(raw[m])
          THEN << raw[m] >> ELSE <<>>) \o LinesWhere(raw, m + 1, in)

HasSourcesSection(raw) == \E i \in 1..Len(raw) : IsSourcesHeading(raw[i])

Pairs(links) == { links[k] : k \in 1..Len(links) }

\* The row written from the text has every pair of the sections among its
\* sources and, empty lines apart, the lines outside the sections as its body.
ParsedAsSections(row, raw) ==
    /\ Pairs(LinksOf(LinesWhere(raw, 1, TRUE))) \subseteq Pairs(row.sources)
    /\ LinesWhere(row.generated_content, 1, FALSE) = LinesWhere(raw, 1, FALSE)
    /\ ~HasSourcesSection(row.generated_content)

JustParsed(c) == c.pc = "score"

\* C24: when the raw text has a section whose heading, at level 2 or deeper,
\* reads Sources, References or Citations in any letter case, the parser
\* returns every [label](url) pair of the section as a source and a body
\* from which the section is removed and in which the text outside it is kept.
C24_SourcesSectionExtracted ==
    \A w \in Workers :
        LET c == call[w]
        IN  (JustParsed(c) /\ HasSourcesSection(c.response.text))
            => ParsedAsSections(posts[c.post_id], c.response.text)

\* A text the patterns handle: it ends with a line break, one heading only
\* begins with one of the three words, that heading is of level 2 and reads
\* the word alone, no level-1 heading comes after it and two line breaks at
\* least do.
PlainSourcesText(raw) ==
    /\ Blank(raw[Len(raw)])
    /\ \A i \in 1..Len(raw) : StartsSourcesHeading(raw[i]) =>
          /\ raw[i].h = 2
          /\ IsSourcesHeading(raw[i])
          /\ \A k \in 1..Len(raw) : StartsSourcesHeading(raw[k]) => k = i
          /\ \A k \in (i + 1)..Len(raw) : raw[k].h # 1
          /\ i + 2 <= Len(raw)

\* What the code keeps of C24: the same for the texts the patterns handle.
C24_PlainSectionExtracted ==
    \A w \in Workers :
        LET c == call[w]
        IN  (JustParsed(c) /\ HasSourcesSection(c.response.text)
                /\ PlainSourcesText(c.response.text))
            => ParsedAsSections(posts[c.post_id], c.response.text)

\* A text that ends with its sources section and no line break: no source
\* is returned and the section stays in the body.
C24_Witness ==
    \E w \in Workers :
        /\ JustParsed(call[w])
        /\ call[w].response.text =
              << Line(0, "Body.", <<>>), Line(2, "Sources", <<>>),
                 Line(0, "- ", << <<"Example", "https://www.example.com/a">> >>) >>
        /\ posts[call[w].post_id].sources = <<>>
        /\ posts[call[w].post_id].generated_content = call[w].response.text

\* The patterns at work: a text whose section is returned and removed.
C24_PlainWitness ==
    \E w \in Workers :
        /\ JustParsed(call[w])
        /\ call[w].response.text =
              << Line(0, "Body.", <<>>), Line(2, "Sources", <<>>),
                 Line(0, "- ", << <<"Example", "https://www.example.com/a">> >>),
                 Line(0, "", <<>>) >>
        /\ posts[call[w].post_id].sources = << <<"Example", "https://www.example.com/a">> >>
        /\ posts[call[w].post_id].generated_content = << Line(0, "Body.", <<>>) >>


\* ---- C25
HasSourcesDirective(prompt) ==
    \E k \in 1..Len(prompt.lines) : prompt.lines[k] = SourcesDirective

\* C25: for speed fast the rendered user prompt has no sources-section
\* directive and asks for the short word range; for every other speed value
\* it has the directive and asks for the long word range.
C25_PromptBySpeed ==
    \A w \in Workers :
        LET c == call[w]
        IN  c.post_id # 0 =>
               LET prompt == posts[c.post_id].raw_prompt
               IN  /\ FAST_MAX_WORDS < NORMAL_MIN_WORDS
                   /\ c.speed = "fast" =>
                         /\ ~HasSourcesDirective(prompt)
                         /\ prompt.min_words = FAST_MIN_WORDS
                         /\ prompt.max_words = FAST_MAX_WORDS
                   /\ c.speed # "fast" =>
                         /\ HasSourcesDirective(prompt)
                         /\ prompt.min_words = NORMAL_MIN_WORDS
                         /\ prompt.max_words = NORMAL_MAX_WORDS

\* A fast prompt without the directive, then the prompt of a speed that is
\* neither fast nor normal with it.
C25_Witness ==
    /\ Len(posts) = 2
    /\ ~HasSourcesDirective(posts[1].raw_prompt)
    /\ posts[1].raw_prompt.max_words = FAST_MAX_WORDS
    /\ call[1].speed = "thorough"
    /\ call[1].post_id = 2
    /\ HasSourcesDirective(posts[2].raw_prompt)
    /\ posts[2].raw_prompt.min_words = NORMAL_MIN_WORDS


\* ---- C26
\* The breaker opened and its cool-off window has elapsed with no success
\* since.
CoolOffElapsed ==
    /\ consec[provider] >= CIRCUIT_FAILURE_THRESHOLD
    /\ _provider_state[provider].open_until <= now

\* C26: once the breaker opened and its cool-off window has elapsed without
\* a success, the failure count is still at or above the threshold; the
\* check of the breaker passes again, and the next single _record_failure
\* opens the breaker for a full CIRCUIT_COOL_OFF_SECONDS; only
\* _record_success lowers the count.
C26_ReopensAfterOneFailure ==
    [][ /\ CoolOffElapsed =>
              _provider_state[provider].failures >= CIRCUIT_FAILURE_THRESHOLD
        /\ \A w \in Workers :
              /\ (CoolOffElapsed /\ call[w].pc = "check" /\ call'[w].pc # "check")
                    => call'[w].pc = "attempt"
              /\ (CoolOffElapsed /\ call[w].pc = "record_failure_write"
                       /\ call'[w].pc # "record_failure_write")
                    => /\ _provider_state'[provider].open_until =
                             now + CIRCUIT_COOL_OFF_SECONDS
                       /\ _provider_state'[provider].failures =
                             _provider_state[provider].failures + 1
        /\ _provider_state'[provider].failures < _provider_state[provider].failures
              => /\ _provider_state'[provider] = CircuitState(0, 0)
                 /\ \E w \in Workers : /\ call[w].pc = "record_success"
                                       /\ call'[w].pc = "persist" ]_vars

\* The breaker opened for 30 seconds; when they had passed a fourth call
\* was let through, failed, and opened it for 30 seconds more.
C26_Witness ==
    /\ reachedAt[provider] + CIRCUIT_COOL_OFF_SECONDS <= now
    /\ _provider_state[provider].failures = CIRCUIT_FAILURE_THRESHOLD + 1
    /\ _provider_state[provider].open_until = now + CIRCUIT_COOL_OFF_SECONDS
    /\ \E w \in Workers : call[w].pc = "failed" /\ call[w].exc.code = "API_ERROR"

\* ---- C27
Running(c) == c.pc \notin {"idle", "done"}

\* The row a call created is completed or failed when the call has ended.
RowSettled(c) ==
    (c.pc = "done" /\ c.post_id # 0) => posts[c.post_id].status \in {"completed", "failed"}

\* C27: every generate_post call terminates; it makes max_retries + 1
\* provider attempts at most, and when it returns or raises, the row it
\* created, if any, is completed or failed, never left generating.
C27_TerminatesWithRowSettled ==
    /\ \A w \in Workers : Running(call[w]) ~> call[w].pc = "done"
    /\ [](\A w \in Workers :
             /\ InLoop(call[w]) => call[w].attempts <= call[w].max_retries + 1
             /\ RowSettled(call[w]))

\* The handler's own save failed.
HandlerSaveFailed(c) ==
    c.pc = "done" /\ c.result.error.message = "database error on save"
        /\ c.post_id # 0 /\ posts[c.post_id].status # c.blog_post.status

\* What the code keeps of C27: the call terminates within max_retries + 1
\* attempts, and its row is completed or failed unless the save of the
\* except clause itself failed.
C27_TerminatesWithRowSettledIfSaved ==
    /\ \A w \in Workers : Running(call[w]) ~> call[w].pc = "done"
    /\ [](\A w \in Workers :
             /\ InLoop(call[w]) => call[w].attempts <= call[w].max_retries + 1
             /\ ~HandlerSaveFailed(call[w]) => RowSettled(call[w]))

\* A call has raised and its row is left generating.
C27_Witness ==
    \E w \in Workers :
        /\ call[w].pc = "done"
        /\ ~call[w].result.success
        /\ call[w].post_id # 0
        /\ posts[call[w].post_id].status = "generating"


\* ---- C28
NoneGenerating == \A w \in Workers : call[w].pc \in {"idle", "done"}

\* C28: whenever no record_action call and no generation is under way, the
\* sentiment_score of every post is the number of its like rows minus the
\* number of its dislike rows, also when record_action calls on a post
\* interleave with the whole-row writes generate_post makes to it.
C28_ScoreMatchesRowsAtRest ==
    (NoneRecording /\ NoneGenerating) =>
        \A id \in DOMAIN posts :
            posts[id].sentiment_score =
                engagement_count(id, "like") - engagement_count(id, "dislike")

\* A like was recorded while the post was generating; the generation failed
\* and its save put the score back to 0 while the like row is there.
C28_Witness ==
    /\ NoneRecording
    /\ \E w \in Workers :
          /\ call[w].pc = "done"
          /\ ~call[w].result.success
          /\ call[w].post_id # 0
          /\ posts[call[w].post_id].status = "failed"
          /\ engagement_count(call[w].post_id, "like") = 1
          /\ engagement_count(call[w].post_id, "dislike") = 0
          /\ posts[call[w].post_id].sentiment_score = 0
          /\ call[w].post_id \in DOMAIN post_metrics
          /\ post_metrics[call[w].post_id].likes_count = 1


\* ---- C29
\* record_action run alone on a pair whose row is row (<<>>: none): the row
\* it leaves and the was_toggle it returns.
Alone(row, action) ==
    IF row = << action >> THEN [row |-> <<>>, was_toggle |-> TRUE]
    ELSE [row |-> << action >>, was_toggle |-> FALSE]

\* The calls first and second, run in that order on a pair without a row,
\* leave the row that is there and return what they returned.
InOrder(first, second) ==
    LET one == Alone(<<>>, first.action)
        two == Alone(one.row, second.action)
    IN  /\ Reaction(first.blog_post_id, first.session_id) = two.row
        /\ first.was_toggle = one.was_toggle
        /\ second.was_toggle = two.was_toggle

\* Two calls, the only ones made, were accepted for the same pair and have
\* ended.
TwoCallsOnOnePair(a, b) ==
    /\ a # b
    /\ recorded = 2
    /\ rq[a].pc = "done" /\ rq[b].pc = "done"
    /\ rq[a].result.success /\ rq[b].result.success
    /\ rq[a].blog_post_id = rq[b].blog_post_id
    /\ rq[a].session_id = rq[b].session_id

\* C29: record_action is linearizable per (post, session) pair: whatever the
\* interleaving of two calls of one session on one post, the row left (or
\* its absence) and the was_toggle values returned are those of the two
\* calls made one after the other in some order; two concurrent identical
\* likes on a pair without a row leave no row.
C29_LinearizablePerPair ==
    \A a, b \in Requests :
        TwoCallsOnOnePair(a, b) =>
            InOrder(rq[a], rq[b]) \/ InOrder(rq[b], rq[a])

\* Two identical likes of one session on a post without a row: both found
\* no row, both returned was_toggle False and the like row is there.
C29_Witness ==
    \E a, b \in Requests :
        /\ TwoCallsOnOnePair(a, b)
        /\ rq[a].action = "like" /\ rq[b].action = "like"
        /\ rq[a].existing = <<>> /\ rq[b].existing = <<>>
        /\ ~rq[a].was_toggle /\ ~rq[b].was_toggle
        /\ Reaction(rq[a].blog_post_id, rq[a].session_id) = << "like" >>


\* ---- C30
\* The view's save of job j happens in this step.
ViewSaves(j) ==
    /\ j \in DOMAIN jobs
    /\ jobs[j].view = "enqueued"
    /\ jobs'[j].view = "saved"

\* C30: the write of the task id that the submit endpoint makes after the
\* job is enqueued touches the job's task id only: whatever a worker that
\* has started or finished the job wrote as status, progress, content link
\* and error text is left as it is.
C30_TaskIdWriteOnly ==
    [][\A j \in 1..MaxJobs :
          ViewSaves(j) =>
              /\ jobs'[j].task_id = j
              /\ jobs'[j].status = jobs[j].status
              /\ jobs'[j].progress = jobs[j].progress
              /\ jobs'[j].blog_post_id = jobs[j].blog_post_id
              /\ jobs'[j].error_message = jobs[j].error_message]_vars

\* The view saved the task id of a job that a worker had already completed:
\* the job is still completed, at progress 100 and linked to its post.
C30_Witness ==
    \E j \in DOMAIN jobs :
        /\ jobs[j].view = "saved"
        /\ jobs[j].saved_over = "completed"
        /\ jobs[j].status = "completed"
        /\ jobs[j].progress = 100
        /\ jobs[j].blog_post_id # 0
        /\ jobs[j].task_id = j

====
